---- MODULE Spec2Model ----
(***************************************************************************)
(* A model of the arXiv harvester: the SQLite paper store                  *)
(* (store/database.py), the throttled API client (api/client.py), the      *)
(* Slack notifier (notify/slack.py), the scheduler with its harvest cycle  *)
(* (scheduler/scheduler.py) and the batch driver of                        *)
(* scripts/search_prompt_engineering.py.                                   *)
(*                                                                         *)
(* Representation.  A Python string that the code splits on '/' is a       *)
(* sequence of its '/'-separated segments: "http://arxiv.org/abs/1" is     *)
(* <<"http:", "", "arxiv.org", "abs", "1">> and the bare token "1" is      *)
(* <<"1">>.  String concatenation with a prefix ending in '/' is \o.       *)
(* A Python dict is a record whose DOMAIN is the set of keys present.      *)
(* An Optional row (fetchone) is a sequence of length 0 or 1.              *)
(* An Optional datetime is a sequence of length 0 or 1 as well.  Text that  *)
(* is parsed, measured or cut is a TLA+ string, whose Len, \o and SubSeq   *)
(* are those of Python.  The scheduler's time is counted in whole days.    *)
(* The timestamps created_at / updated_at are not modelled.                *)
(***************************************************************************)
EXTENDS Integers, Sequences, FiniteSets, TLC

VARIABLES
    db,                 \* the SQLite file: papers, authors, paper_authors, sqlite_sequence
    pre,                \* the database as it was before the last store operation
    call,               \* the last store operation: its arguments and its outcome
    clock,              \* time.time()
    last_request_time,  \* ArxivApiClient.last_request_time
    issued,             \* the times at which the last two outbound requests were issued
    ccall,              \* the last client operation: its arguments and its outcome
    notifier,           \* the SlackNotifier: max_message_length
    ncall,              \* the last notifier operation: its arguments and its outcome
    fa,                 \* fetch_all_papers: its locals, its position and the page requests made
    dl,                 \* download_pdfs: the tasks of the pool, the files and the list collected
    sched,              \* the Scheduler: its search, notification and scheduling parameters
    statefile,          \* the state file: <<>> if absent, else <<the state written>>
    now,                \* datetime.now(), in days
    hcall,              \* the last scheduler operation: its arguments and its outcome
    failed_at,          \* the last invocation of main whose cycle failed: <<>> if none, else
                        \* <<its state file and the day its cycle started>>
    delivery            \* the short identifiers that earlier harvest cycles passed to
                        \* notification, and those persisted but not yet delivered

vars == <<db, pre, call, clock, last_request_time, issued, ccall,
          notifier, ncall, fa, dl, sched, statefile, now, hcall,
          failed_at, delivery>>

storeVars == <<db, pre, call>>
clientVars == <<clock, last_request_time, issued, ccall>>
notifyVars == <<notifier, ncall>>
fetchVars == <<fa, dl>>
schedVars == <<sched, statefile, now, hcall, failed_at, delivery>>

(***************************************************************************)
(* Bounds of the model.                                                    *)
(***************************************************************************)
MaxBatch == 2        \* longest list handed to store_papers
MaxFetch == 2        \* longest list handed to filter_new_papers
MaxClock == 12       \* the clock stops advancing at this many seconds
MaxLag == 1          \* longest time.sleep may overrun the time asked for
MaxDur == 2          \* longest a request takes to complete or fail
MaxAuthorId == 3     \* largest value the model lets the AUTOINCREMENT sequence of authors take
MaxTotal == 201      \* most records the upstream source holds for a query
MaxPasses == 4       \* most passes of the loop of fetch_all_papers
MaxLimit == 28       \* largest max_message_length a caller configures in place of the default
MaxMessage == 40     \* longest message handed to truncate_message and post_message_to_slack
MaxNotify == 2       \* longest paper list handed to the notifier
MaxDay == 31         \* the last day the schedule is followed to
MaxHarvestDay == 7   \* the last day a harvest cycle is started on

\* the papers of one download_pdfs and the threads of its pool
MaxDownloads == 3

MaxWorkers == 2

\* the days over which main is invoked
MaxMainDay == 1

(***************************************************************************)
(* Values.                                                                 *)
(***************************************************************************)
None == "None"

AbsPrefix == <<"http:", "", "arxiv.org", "abs">>

U1 == AbsPrefix \o <<"1">>          \* "http://arxiv.org/abs/1"
B1 == <<"1">>                       \* "1", the bare token of the same paper
U2 == AbsPrefix \o <<"2">>          \* "http://arxiv.org/abs/2"

Ids == {U1, B1, U2}

AuthorNames == {"a", "b"}

\* ORDER BY a.name over the author names of the model
NameOrder == <<"a", "b">>

\* The records handed to store_papers.  Under identifier U1: two full
\* versions with different author lists, a version carrying only the required
\* keys and a version with an empty author list.  The same paper under its
\* bare token B1.  A second paper U2, with and without authors.  Two malformed
\* records: one without 'title', one without 'id'.
Full1(i) ==
    [id |-> i, title |-> "T1", summary |-> "S1", published_date |-> "D1",
     pdf_url |-> "P1", category |-> "C1", authors |-> <<"a", "b">>]

Full2(i) ==
    [id |-> i, title |-> "T2", summary |-> "S2", published_date |-> "D2",
     pdf_url |-> "P2", authors |-> <<"b">>]

Bare(i) == [id |-> i, title |-> "T2"]

NoAuthors(i) == [id |-> i, title |-> "T1", authors |-> <<>>]

Malformed == { [id |-> U2, summary |-> "S1"], [title |-> "T1", authors |-> <<"a">>] }

PaperInputs ==
    { Full1(U1), Full2(U1), Bare(U1), NoAuthors(U1), Full1(B1), Full2(U2), Bare(U2) }
    \cup Malformed

SeqsUpTo(S, n) == UNION { [1..k -> S] : k \in 1..n }

\* The author name for which _insert_author is made to fail (None: no fault),
\* as tests/test_store.py:test_transaction_rollback does.
FaultNames == {None, "b"}

\* no operation of the component has been called yet
NoCall == [op |-> "idle"]

\* SlackNotifier.__init__
max_message_length == 3000

NewNotifier == [max_message_length |-> max_message_length]

\* Scheduler.__init__
NewScheduler ==
    [query |-> "", categories |-> <<>>, max_results |-> 50,
     slack_webhook |-> None, schedule_type |-> "weekly",
     last_run_time |-> <<>>, state_file |-> None]

\* fetch_all_papers has not been called
FaNotCalled == [pc |-> "not called"]

\* download_pdfs has not been called
DlNotCalled == [pc |-> "not called"]

\* no harvest cycle has passed a paper to notification
NoDelivery == [passed |-> {}, undelivered |-> {}]

(***************************************************************************)
(* store/database.py                                                       *)
(***************************************************************************)

\* PRAGMA foreign_keys is never issued on a connection, so SQLite leaves
\* foreign-key enforcement (and ON DELETE CASCADE) off.
foreign_keys == FALSE

\* initialize_database: three empty tables
EmptyDb == [papers |-> {}, authors |-> {}, paper_authors |-> {}, seq |-> 0]

\* full_id.split('/')[-1] if '/' in full_id else full_id
ArxivId(full_id) ==
    IF Len(full_id) > 1 THEN <<full_id[Len(full_id)]>> ELSE full_id

\* paper.get(key, default)
Get(paper, key, default) ==
    IF key \in DOMAIN paper THEN paper[key] ELSE default

\* INSERT OR IGNORE in place of INSERT OR REPLACE: a conflicting row is kept
InsertOrIgnorePaper(d, row) ==
    IF \E r \in d.papers : r.id = row.id \/ r.arxiv_id = row.arxiv_id
    THEN d
    ELSE [d EXCEPT !.papers = @ \cup {row}]

\* INSERT OR REPLACE INTO papers: the rows that conflict with the new row on
\* the primary key (id) or on the UNIQUE column (arxiv_id) are deleted, then
\* the new row is inserted.
InsertOrReplacePaper(d, row) ==
    LET conflicting == { r \in d.papers : r.id = row.id \/ r.arxiv_id = row.arxiv_id }
        gone == { r.id : r \in conflicting }
    IN [d EXCEPT
          !.papers = (@ \ conflicting) \cup {row},
          !.paper_authors = IF foreign_keys
                            THEN { pa \in @ : pa.paper_id \notin gone }
                            ELSE @]

\* _insert_author: INSERT OR IGNORE INTO authors, then SELECT id.
\* authors.id is AUTOINCREMENT: SQLite draws the next rowid from
\* sqlite_sequence before it meets the UNIQUE conflict on name, so the
\* sequence advances whether or not the row is inserted, and no id is ever
\* assigned twice.  Returns the database and the author's id.
InsertAuthor(d, author_name) ==
    IF \E a \in d.authors : a.name = author_name
    THEN [db |-> [d EXCEPT !.seq = @ + 1],
          id |-> (CHOOSE a \in d.authors : a.name = author_name).id]
    ELSE [db |-> [d EXCEPT !.authors = @ \cup {[id |-> d.seq + 1, name |-> author_name]},
                           !.seq = @ + 1],
          id |-> d.seq + 1]

\* the loop over paper['authors'] (lines 119-124), from position k
RECURSIVE AddAuthors(_, _, _, _, _)
AddAuthors(d, full_id, names, k, failing) ==
    IF k > Len(names) THEN [db |-> d, raised |-> None]
    ELSE IF names[k] = failing THEN [db |-> d, raised |-> "Exception"]
    ELSE LET ins == InsertAuthor(d, names[k])
             d2 == [ins.db EXCEPT !.paper_authors =
                        @ \cup {[paper_id |-> full_id, author_id |-> ins.id]}]
         IN AddAuthors(d2, full_id, names, k + 1, failing)

\* if 'authors' in paper and paper['authors']
HasAuthors(paper) ==
    "authors" \in DOMAIN paper /\ paper.authors # <<>>

\* if 'id' not in paper or 'title' not in paper: raise ValueError
Valid(paper) ==
    "id" \in DOMAIN paper /\ "title" \in DOMAIN paper

\* the body of the loop of store_papers for a valid record (lines 93-124)
StoreValid(d, paper, failing) ==
    LET full_id == paper.id
        row == [id |-> full_id,
                arxiv_id |-> ArxivId(full_id),
                title |-> paper.title,
                summary |-> Get(paper, "summary", ""),
                published_date |-> Get(paper, "published_date", ""),
                pdf_url |-> Get(paper, "pdf_url", ""),
                category |-> Get(paper, "category", None)]
        d1 == InsertOrReplacePaper(d, row)
    IN IF HasAuthors(paper)
       THEN AddAuthors([d1 EXCEPT !.paper_authors =
                            { pa \in @ : pa.paper_id # full_id }],
                       full_id, paper.authors, 1, failing)
       ELSE [db |-> d1, raised |-> None]

\* a malformed record is skipped instead of raising
StoreOneSkipMalformed(d, paper, failing) ==
    IF ~Valid(paper)
    THEN [db |-> d, raised |-> None]
    ELSE StoreValid(d, paper, failing)

\* one iteration of the loop of store_papers (lines 88-124)
StoreOne(d, paper, failing) ==
    IF ~Valid(paper)
    THEN [db |-> d, raised |-> "ValueError"]
    ELSE StoreValid(d, paper, failing)

\* for paper in papers: ... , stopping at the first exception
RECURSIVE StoreLoop(_, _, _, _)
StoreLoop(d, papers, i, failing) ==
    IF i > Len(papers) THEN [db |-> d, raised |-> None]
    ELSE LET r == StoreOne(d, papers[i], failing)
         IN IF r.raised # None THEN r
            ELSE StoreLoop(r.db, papers, i + 1, failing)

\* the changes made so far are kept instead of rolled back
NoRollback(before, working) == working

\* conn.rollback(): the file is as it was at BEGIN TRANSACTION
Rollback(before, working) == before

\* conn.commit()
Commit(before, working) == working

\* store_papers: the database after the call and the exception raised
store_papers(d, papers, failing) ==
    LET r == StoreLoop(d, papers, 1, failing)
    IN IF r.raised = None
       THEN [db |-> Commit(d, r.db), raised |-> None]
       ELSE [db |-> Rollback(d, r.db), raised |-> r.raised]

\* _get_paper_authors: the names joined to the paper, ORDER BY a.name
AuthorSetOf(d, paper_id) ==
    { a.name : a \in { a \in d.authors :
          \E pa \in d.paper_authors : pa.paper_id = paper_id /\ pa.author_id = a.id } }

get_paper_authors(d, paper_id) ==
    SelectSeq(NameOrder, LAMBDA n : n \in AuthorSetOf(d, paper_id))

\* dict(row) with paper['authors'] added
Hydrate(d, r) ==
    [id |-> r.id, arxiv_id |-> r.arxiv_id, title |-> r.title, summary |-> r.summary,
     published_date |-> r.published_date, pdf_url |-> r.pdf_url,
     category |-> r.category, authors |-> get_paper_authors(d, r.id)]

\* SELECT ... WHERE col = value; fetchone()
FetchOne(rows) ==
    IF rows = {} THEN <<>> ELSE <<CHOOSE r \in rows : TRUE>>

\* only the full URL form is looked up
get_paper_by_id_url_only(d, paper_id) ==
    LET row == FetchOne({ r \in d.papers : r.id = AbsPrefix \o paper_id })
    IN IF row = <<>> THEN <<>> ELSE <<Hydrate(d, row[1])>>

\* get_paper_by_id: <<>> for None, <<paper>> otherwise
get_paper_by_id(d, paper_id) ==
    LET first == FetchOne({ r \in d.papers : r.arxiv_id = paper_id })
        row == IF first = <<>>
               THEN FetchOne({ r \in d.papers : r.id = AbsPrefix \o paper_id })
               ELSE first
    IN IF row = <<>> THEN <<>> ELSE <<Hydrate(d, row[1])>>

\* DELETE FROM authors WHERE id NOT IN (SELECT DISTINCT author_id FROM paper_authors)
OrphanedAuthors(authors_, joins) ==
    { a \in authors_ : a.id \notin { pa.author_id : pa \in joins } }

\* the paper's join rows are left to ON DELETE CASCADE
DeletePaperRowsByCascade(d, full_id) ==
    LET joins == IF foreign_keys
                 THEN { pa \in d.paper_authors : pa.paper_id # full_id }
                 ELSE d.paper_authors
        kept == { r \in d.papers : r.id # full_id }
        orphaned == OrphanedAuthors(d.authors, joins)
    IN [db |-> [d EXCEPT !.paper_authors = joins,
                         !.papers = kept,
                         !.authors = @ \ orphaned],
        rowcount |-> Cardinality(orphaned)]

\* the orphans are selected before the paper's join rows are deleted
DeletePaperPruneFirst(d, full_id) ==
    LET joins == { pa \in d.paper_authors : pa.paper_id # full_id }
        kept == { r \in d.papers : r.id # full_id }
        orphaned == OrphanedAuthors(d.authors, d.paper_authors)
    IN [db |-> [d EXCEPT !.paper_authors = joins,
                         !.papers = kept,
                         !.authors = @ \ orphaned],
        rowcount |-> Cardinality(orphaned)]

\* the three DELETE statements of delete_paper (lines 369-379): the database
\* they leave and cursor.rowcount after the last of them
DeletePaperRows(d, full_id) ==
    LET joins == { pa \in d.paper_authors : pa.paper_id # full_id }
        kept == { r \in d.papers : r.id # full_id }
        orphaned == OrphanedAuthors(d.authors, joins)
    IN [db |-> [d EXCEPT !.paper_authors = joins,
                         !.papers = kept,
                         !.authors = @ \ orphaned],
        rowcount |-> Cardinality(orphaned)]

\* delete_paper: the database after the call and the value returned
delete_paper(d, paper_id) ==
    LET row == FetchOne({ r \in d.papers : r.arxiv_id = paper_id })
        full_id == IF row # <<>> THEN row[1].id ELSE AbsPrefix \o paper_id
    IN IF row = <<>> /\ ~(\E r \in d.papers : r.id = full_id)
       THEN [db |-> Rollback(d, d), result |-> FALSE]
       ELSE LET del == DeletePaperRows(d, full_id)
            IN [db |-> Commit(d, del.db), result |-> del.rowcount > 0]

(***************************************************************************)
(* store/database.py: get_papers                                           *)
(***************************************************************************)

\* the place of a text among the texts of the model under SQLite's BINARY
\* collation, by which ORDER BY compares the values of a TEXT column
Collation(text) ==
    CASE text = "" -> 0
      [] text \in {"D1", "T1"} -> 1
      [] text \in {"D2", "T2"} -> 2

\* SELECT * FROM papers ORDER BY {order_by} {order_direction}: the orders in
\* which the rows may come.  SQL leaves the order of rows with equal keys
\* open, so every order of such rows is one of them.
Listings(d, order_by, order_direction) ==
    { s \in [1..Cardinality(d.papers) -> d.papers] :
        /\ \A i, j \in DOMAIN s : i # j => s[i] # s[j]
        /\ \A i, j \in DOMAIN s : i < j =>
              IF order_direction = "ASC"
              THEN Collation(s[i][order_by]) <= Collation(s[j][order_by])
              ELSE Collation(s[i][order_by]) >= Collation(s[j][order_by]) }

\* the statement get_papers builds is "... OFFSET ?" without LIMIT when limit
\* is None and offset > 0, which SQLite rejects: near "OFFSET": syntax error
OffsetWithoutLimit(limit, offset) == limit = <<>> /\ offset > 0

\* get_papers (lines 154-190) when the SELECT yields the rows in the order
\* `listing`: limit is <<>> for None and <<n>> otherwise.  Returns the
\* exception raised and the papers returned, each with its authors.
get_papers(d, limit, offset, listing) ==
    IF OffsetWithoutLimit(limit, offset)
    THEN [raised |-> "OperationalError", page |-> <<>>]
    ELSE LET left == IF Len(listing) > offset THEN Len(listing) - offset ELSE 0
             n == IF limit # <<>> /\ limit[1] < left THEN limit[1] ELSE left
         IN [raised |-> None,
             page |-> [k \in 1..n |-> Hydrate(d, listing[offset + k])]]

(***************************************************************************)
(* scheduler/scheduler.py: filter_new_papers                               *)
(***************************************************************************)

\* the store is asked for the full identifier instead of the short one
RECURSIVE FilterLoopFullId(_, _, _, _, _)
FilterLoopFullId(d, papers, i, new_papers, lookups) ==
    IF i > Len(papers) THEN [new_papers |-> new_papers, lookups |-> lookups]
    ELSE LET existing_paper == get_paper_by_id(d, papers[i].id)
         IN FilterLoopFullId(d, papers, i + 1,
                             IF existing_paper = <<>>
                             THEN Append(new_papers, papers[i]) ELSE new_papers,
                             lookups + 1)

\* the loop of filter_new_papers from position i; counts the store lookups
RECURSIVE FilterLoop(_, _, _, _, _)
FilterLoop(d, papers, i, new_papers, lookups) ==
    IF i > Len(papers) THEN [new_papers |-> new_papers, lookups |-> lookups]
    ELSE LET arxiv_id == ArxivId(papers[i].id)
             existing_paper == get_paper_by_id(d, arxiv_id)
         IN FilterLoop(d, papers, i + 1,
                       IF existing_paper = <<>>
                       THEN Append(new_papers, papers[i]) ELSE new_papers,
                       lookups + 1)

filter_new_papersFullId(d, papers) == FilterLoopFullId(d, papers, 1, <<>>, 0)

\* every paper is returned as new, without a lookup
filter_new_papers_unfiltered(d, papers) == [new_papers |-> papers, lookups |-> 0]

filter_new_papers(d, papers) == FilterLoop(d, papers, 1, <<>>, 0)

\* the records a search returns: every key present (client.py lines 135-146)
FetchedPapers ==
    { [id |-> i, title |-> "T1", summary |-> "S1", published_date |-> "D1",
       pdf_url |-> "P1", authors |-> <<"a">>] : i \in Ids }
    \cup { [id |-> U2, title |-> "T2", summary |-> "S2", published_date |-> "D2",
            pdf_url |-> "P2", authors |-> <<>>] }

\* the identifiers a caller looks up or deletes: every short and full form
LookupIds == Ids \cup { ArxivId(i) : i \in Ids }

(***************************************************************************)
(* The store as a state machine.  An operation runs from call to return in  *)
(* one step; its caller then drops the returned value (Return) before the  *)
(* next operation starts.                                                  *)
(***************************************************************************)
Idle == [op |-> "idle"]

\* initialize_database on a new file; a client is constructed and not used
StoreInit ==
    /\ db = EmptyDb
    /\ pre = EmptyDb
    /\ call = Idle
    /\ clock = 1
    /\ last_request_time = 0
    /\ issued = <<>>
    /\ ccall = [op |-> "idle"]
    /\ notifier = NewNotifier
    /\ ncall = NoCall
    /\ fa = FaNotCalled
    /\ dl = DlNotCalled
    /\ sched = NewScheduler
    /\ statefile = <<>>
    /\ now = 0
    /\ failed_at = <<>>
    /\ delivery = NoDelivery
    /\ hcall = NoCall

StorePapers ==
    \E papers \in SeqsUpTo(PaperInputs, MaxBatch), failing \in FaultNames :
        LET r == store_papers(db, papers, failing)
        IN /\ call = Idle
           /\ r.db.seq <= MaxAuthorId
           /\ db' = r.db
           /\ pre' = db
           /\ call' = [op |-> "store_papers", papers |-> papers,
                       failing |-> failing, raised |-> r.raised]
           /\ UNCHANGED <<clientVars, notifyVars, fetchVars, schedVars>>

DeletePaper ==
    \E paper_id \in LookupIds :
        LET r == delete_paper(db, paper_id)
        IN /\ call = Idle
           /\ db' = r.db
           /\ pre' = db
           /\ call' = [op |-> "delete_paper", paper_id |-> paper_id,
                       returned |-> r.result]
           /\ UNCHANGED <<clientVars, notifyVars, fetchVars, schedVars>>

GetPaperById ==
    \E paper_id \in LookupIds :
        /\ call = Idle
        /\ db' = db
        /\ pre' = db
        /\ call' = [op |-> "get_paper_by_id", paper_id |-> paper_id,
                    paper |-> get_paper_by_id(db, paper_id)]
        /\ UNCHANGED <<clientVars, notifyVars, fetchVars, schedVars>>

FilterNewPapers ==
    \E papers \in SeqsUpTo(FetchedPapers, MaxFetch) :
        LET r == filter_new_papers(db, papers)
        IN /\ call = Idle
           /\ db' = db
           /\ pre' = db
           /\ call' = [op |-> "filter_new_papers", papers |-> papers,
                       new_papers |-> r.new_papers, lookups |-> r.lookups]
           /\ UNCHANGED <<clientVars, notifyVars, fetchVars, schedVars>>

Return ==
    /\ call # Idle
    /\ call' = Idle
    /\ pre' = db
    /\ db' = db
    /\ UNCHANGED <<clientVars, notifyVars, fetchVars, schedVars>>

\* the values of limit and offset a caller pages with, and the columns and
\* directions it orders by
Limits == {<<>>, <<1>>, <<2>>}

Offsets == {0, 1, 2}

OrderColumns == {"published_date", "title"}

OrderDirections == {"ASC", "DESC"}

\* a database file that one store_papers call has filled
PagesInit ==
    /\ db \in { store_papers(EmptyDb, papers, None).db :
                   papers \in SeqsUpTo(PaperInputs, MaxBatch) }
    /\ pre = db
    /\ call = Idle
    /\ clock = 1
    /\ last_request_time = 0
    /\ issued = <<>>
    /\ ccall = [op |-> "idle"]
    /\ notifier = NewNotifier
    /\ ncall = NoCall
    /\ fa = FaNotCalled
    /\ dl = DlNotCalled
    /\ sched = NewScheduler
    /\ statefile = <<>>
    /\ now = 0
    /\ failed_at = <<>>
    /\ delivery = NoDelivery
    /\ hcall = NoCall

GetPapers ==
    \E limit \in Limits, offset \in Offsets :
      \E order_by \in OrderColumns, order_direction \in OrderDirections :
        \E listing \in Listings(db, order_by, order_direction) :
          LET r == get_papers(db, limit, offset, listing)
          IN /\ call = Idle
             /\ db' = db
             /\ pre' = db
             /\ call' = [op |-> "get_papers", limit |-> limit, offset |-> offset,
                         order_by |-> order_by,
                         order_direction |-> order_direction,
                         listing |-> listing, raised |-> r.raised,
                         page |-> r.page]
             /\ UNCHANGED <<clientVars, notifyVars, fetchVars, schedVars>>

PagesNext ==
    \/ GetPapers
    \/ Return

SpecPages == PagesInit /\ [][PagesNext]_vars

StoreNext ==
    \/ StorePapers
    \/ DeletePaper
    \/ GetPaperById
    \/ FilterNewPapers
    \/ Return

SpecStore == StoreInit /\ [][StoreNext]_vars

(***************************************************************************)
(* api/client.py                                                           *)
(***************************************************************************)

\* ArxivApiClient.__init__: delay = 3.0 seconds
delay == 3

\* the throttle tests elapsed > delay
enforce_rate_limit_inverted(current_time, last, lag) ==
    LET elapsed == current_time - last
        sleeps == elapsed > delay /\ last > 0
        after == IF sleeps THEN current_time + delay + lag ELSE current_time
    IN [clock |-> after, last_request_time |-> after,
        slept |-> sleeps, sleep_time |-> IF sleeps THEN delay ELSE 0]

\* the throttle sleeps for what is left of the delay
enforce_rate_limit_residual(current_time, last, lag) ==
    LET elapsed == current_time - last
        sleeps == elapsed < delay /\ last > 0
        after == IF sleeps THEN current_time + (delay - elapsed) + lag ELSE current_time
    IN [clock |-> after, last_request_time |-> after,
        slept |-> sleeps, sleep_time |-> IF sleeps THEN delay - elapsed ELSE 0]

\* _enforce_rate_limit, entered when time.time() is current_time with
\* self.last_request_time = last; time.sleep(delay) returns after delay + lag
\* seconds.  Returns the time on return, the new last_request_time, whether
\* it slept and the argument given to time.sleep.
enforce_rate_limit(current_time, last, lag) ==
    LET elapsed == current_time - last
        sleeps == elapsed < delay /\ last > 0
        after == IF sleeps THEN current_time + delay + lag ELSE current_time
    IN [clock |-> after, last_request_time |-> after,
        slept |-> sleeps, sleep_time |-> IF sleeps THEN delay ELSE 0]

\* Text is a TLA+ string here, so that str.strip and the test 'pdf' in href
\* are computed on characters.
Whitespace == {" ", "\n", "\t"}

RECURSIVE LStrip(_)
LStrip(s) ==
    IF Len(s) > 0 /\ SubSeq(s, 1, 1) \in Whitespace
    THEN LStrip(SubSeq(s, 2, Len(s)))
    ELSE s

RECURSIVE RStrip(_)
RStrip(s) ==
    IF Len(s) > 0 /\ SubSeq(s, Len(s), Len(s)) \in Whitespace
    THEN RStrip(SubSeq(s, 1, Len(s) - 1))
    ELSE s

\* str.strip()
Strip(s) == RStrip(LStrip(s))

\* sub in s
Contains(s, sub) ==
    \E i \in 1..(Len(s) - Len(sub) + 1) : SubSeq(s, i, i + Len(sub) - 1) = sub

\* next(generator, default)
NextOr(items, default) == IF items = <<>> THEN default ELSE items[1]

\* An element of an XML document: its tag ("atom:" for the Atom namespace),
\* the text before its first child ("" for None), its attributes as a set of
\* <<name, value>> pairs and its child elements.
Element(tag, text, attrib, children) ==
    [tag |-> tag, text |-> text, attrib |-> attrib, children |-> children]

\* element.findall(tag, ns): the children with that tag, in document order
FindAll(element, tag) == SelectSeq(element.children, LAMBDA c : c.tag = tag)

\* element.find(xpath, ns): "." is the element itself, a tag its first such
\* child; <<>> for None
Find(element, xpath) ==
    IF xpath = "." THEN <<element>>
    ELSE LET found == FindAll(element, xpath)
         IN IF found = <<>> THEN <<>> ELSE <<found[1]>>

\* link.attrib.get(name, default)
AttribGet(element, name, default) ==
    IF \E p \in element.attrib : p[1] = name
    THEN (CHOOSE p \in element.attrib : p[1] = name)[2]
    ELSE default

\* _get_xml_text: result.text.strip() if result is not None and result.text
get_xml_text(element, xpath) ==
    LET result == Find(element, xpath)
    IN IF result # <<>> /\ result[1].text # "" THEN Strip(result[1].text) ELSE ""

\* the paper built from an XML entry (lines 148-163)
XmlPaper(entry) ==
    LET authors == FindAll(entry, "atom:author")
        links == FindAll(entry, "atom:link")
        hrefs == [k \in DOMAIN links |-> AttribGet(links[k], "href", "")]
    IN [id |-> get_xml_text(entry, "atom:id"),
        title |-> get_xml_text(entry, "atom:title"),
        summary |-> get_xml_text(entry, "atom:summary"),
        authors |-> [k \in DOMAIN authors |-> get_xml_text(authors[k], ".")],
        published_date |-> get_xml_text(entry, "atom:published"),
        pdf_url |-> NextOr(SelectSeq(hrefs, LAMBDA h : Contains(h, "pdf")), "")]

\* the paper built from a JSON entry (lines 135-146)
JsonPaper(entry) ==
    LET authors == Get(entry, "author", <<>>)
        links == Get(entry, "link", <<>>)
        hrefs == [k \in DOMAIN links |-> Get(links[k], "href", "")]
    IN [id |-> Get(entry, "id", ""),
        title |-> Get(entry, "title", ""),
        summary |-> Get(entry, "summary", ""),
        authors |-> [k \in DOMAIN authors |-> Get(authors[k], "name", "")],
        published_date |-> Get(entry, "published", ""),
        pdf_url |-> NextOr(SelectSeq(hrefs, LAMBDA h : Contains(h, "pdf")), "")]

\* isinstance(entry, dict): an XML entry is an Element
IsDict(entry) == "tag" \notin DOMAIN entry

\* A response body is one of
\*   [data |-> v]     json.loads returns v, where a JSON object is
\*                    [dict |-> record] and a JSON array [list |-> sequence];
\*   [root |-> e]     json.loads raises JSONDecodeError and ET.fromstring
\*                    returns the element e;
\*   [text |-> s]     neither parser accepts the body.
\* The value of 'feed' is a JSON object, written as a record; the value of
\* 'entry' is an array or a single object.

\* data.get('feed', {}).get('entry', []), a single object made a list
JsonEntries(data) ==
    IF "feed" \notin DOMAIN data.dict THEN <<>>
    ELSE IF "entry" \notin DOMAIN data.dict.feed THEN <<>>
    ELSE LET entries == data.dict.feed.entry
         IN IF "list" \in DOMAIN entries THEN entries.list ELSE <<entries.dict>>

ParseFailed ==
    [raised |-> "Exception", message |-> <<"Failed to parse response">>,
     results |-> <<>>]

\* _parse_response: the entries of the JSON or of the XML document, each made
\* a paper; any fault inside is raised again as
\* Exception("Failed to parse response: ...")
parse_response(content) ==
    IF "data" \in DOMAIN content
    THEN IF "dict" \notin DOMAIN content.data
         THEN ParseFailed         \* AttributeError: no attribute 'get'
         ELSE LET entries == JsonEntries(content.data)
              IN [raised |-> None, message |-> <<>>,
                  results |-> [k \in DOMAIN entries |->
                                 IF IsDict(entries[k]) THEN JsonPaper(entries[k])
                                 ELSE XmlPaper(entries[k])]]
    ELSE IF "root" \in DOMAIN content
    THEN LET entries == FindAll(content.root, "atom:entry")
         IN [raised |-> None, message |-> <<>>,
             results |-> [k \in DOMAIN entries |->
                            IF IsDict(entries[k]) THEN JsonPaper(entries[k])
                            ELSE XmlPaper(entries[k])]]
    ELSE ParseFailed              \* xml.etree.ElementTree.ParseError

\* The paper entries the API answers with, before encoding: every field, the
\* identifier alone, and two authors without links.
Entry ==
    [id |-> "http://arxiv.org/abs/1", title |-> "T1", summary |-> "S1",
     published |-> "D1", authors |-> <<"a">>,
     links |-> <<"http://arxiv.org/abs/1", "http://arxiv.org/pdf/1">>]

EntryIdOnly == [id |-> "http://arxiv.org/abs/2"]

EntryTwoAuthors ==
    [id |-> "http://arxiv.org/abs/3", title |-> "T3", authors |-> <<"a", "b">>]

EntryLists == { <<>>, <<Entry>>, <<EntryIdOnly>>, <<EntryTwoAuthors, Entry>> }

\* the entry as an element of the Atom feed the arXiv API returns
XmlField(e, key, tag) ==
    IF key \in DOMAIN e THEN <<Element(tag, e[key], {}, <<>>)>> ELSE <<>>

XmlEntry(e) ==
    LET authors == Get(e, "authors", <<>>)
        links == Get(e, "links", <<>>)
    IN Element("atom:entry", "\n", {},
         XmlField(e, "id", "atom:id")
         \o XmlField(e, "published", "atom:published")
         \o XmlField(e, "title", "atom:title")
         \o XmlField(e, "summary", "atom:summary")
         \o [k \in DOMAIN authors |->
               Element("atom:author", "\n", {},
                       <<Element("atom:name", authors[k], {}, <<>>)>>)]
         \o [k \in DOMAIN links |->
               Element("atom:link", "", {<<"href", links[k]>>}, <<>>)])

XmlFeed(es) ==
    [root |-> Element("atom:feed", "\n", {}, [k \in DOMAIN es |-> XmlEntry(es[k])])]

\* the entry as an object of the JSON the test suite answers with
JsonEntry(e) ==
    [key \in (DOMAIN e \ {"authors", "links"})
         \cup (IF "authors" \in DOMAIN e THEN {"author"} ELSE {})
         \cup (IF "links" \in DOMAIN e THEN {"link"} ELSE {}) |->
       IF key = "author" THEN [k \in DOMAIN e.authors |-> [name |-> e.authors[k]]]
       ELSE IF key = "link" THEN [k \in DOMAIN e.links |-> [href |-> e.links[k]]]
       ELSE e[key]]

JsonFeed(es) ==
    [data |-> [dict |-> [feed |-> [entry |->
        [list |-> [k \in DOMAIN es |-> JsonEntry(es[k])]]]]]]

\* bodies that are no feed: a JSON object without 'feed', a JSON array, an
\* XML document with another root, and text that is neither JSON nor XML
NoFeedBodies ==
    { [data |-> [dict |-> [error |-> "x"]]],
      [data |-> [list |-> <<"1", "2">>]],
      [root |-> Element("html", "", {}, <<Element("body", "", {}, <<>>)>>)],
      [text |-> "Not a valid XML or JSON"] }

Bodies ==
    { XmlFeed(es) : es \in EntryLists }
    \cup { JsonFeed(es) : es \in EntryLists }
    \cup { [data |-> [dict |-> [feed |-> [entry |-> [dict |-> JsonEntry(Entry)]]]]] }
    \cup NoFeedBodies

\* what requests.get does: it raises a transport fault, or returns a response
\* with a status code and a body
Replies ==
    { [kind |-> "ConnectionError"], [kind |-> "Timeout"] }
    \cup { [kind |-> "response", status_code |-> 200, content |-> body] :
             body \in Bodies }
    \cup { [kind |-> "response", status_code |-> 500,
            content |-> [text |-> "Internal Server Error"]] }

\* raise Exception(prefix + str(e))
Wrap(prefix, inner) ==
    [raised |-> "Exception", message |-> <<prefix>> \o inner, results |-> <<>>]

\* the try block shared by search (lines 76-95) and get_paper_by_id (lines
\* 195-210), before either method's except clauses: the exception in flight,
\* or the parsed results
Request(reply) ==
    IF reply.kind # "response"
    THEN [raised |-> reply.kind, message |-> <<>>, results |-> <<>>]
    ELSE IF reply.status_code # 200
    THEN [raised |-> "Exception", message |-> <<"API request failed with status">>,
          results |-> <<>>]
    ELSE parse_response(reply.content)

\* search: ConnectionError and Timeout are raised again as they are, any
\* other exception as Exception("Error during API request: ...")
search(reply) ==
    LET r == Request(reply)
    IN IF r.raised \in {None, "ConnectionError", "Timeout"}
       THEN r
       ELSE Wrap("Error during API request", r.message)

\* client get_paper_by_id: an empty result raises, and every exception is
\* raised again as Exception("Error retrieving paper: ...")
client_get_paper_by_id(reply) ==
    LET r == Request(reply)
        t == IF r.raised = None /\ r.results = <<>>
             THEN [raised |-> "Exception", message |-> <<"Paper with ID not found">>,
                   results |-> <<>>]
             ELSE r
    IN IF t.raised = None
       THEN [raised |-> None, message |-> <<>>, results |-> <<t.results[1]>>]
       ELSE Wrap("Error retrieving paper", t.message)

\* the issue times of the last two requests
LastTwo(times) ==
    IF Len(times) > 2 THEN SubSeq(times, Len(times) - 1, Len(times)) ELSE times

(***************************************************************************)
(* One client as a state machine: calls follow one another, and time       *)
(* passes between them.                                                    *)
(***************************************************************************)
ClientInit ==
    /\ clock = 1
    /\ last_request_time = 0
    /\ issued = <<>>
    /\ ccall = [op |-> "idle"]
    /\ db = EmptyDb
    /\ pre = EmptyDb
    /\ call = Idle
    /\ notifier = NewNotifier
    /\ ncall = NoCall
    /\ fa = FaNotCalled
    /\ dl = DlNotCalled
    /\ sched = NewScheduler
    /\ statefile = <<>>
    /\ now = 0
    /\ failed_at = <<>>
    /\ delivery = NoDelivery
    /\ hcall = NoCall

\* search: the throttle, then the request, issued at once, which takes dur
\* seconds to return or fail.  The call records when it completed and how
\* long after the completion of the call before it was entered.
Search ==
    \E reply \in Replies :
      \E out \in {search(reply)} :
        \E lag \in 0..MaxLag, dur \in 0..MaxDur :
          LET rl == enforce_rate_limit(clock, last_request_time, lag)
          IN /\ rl.clock + dur <= MaxClock
             /\ last_request_time' = rl.last_request_time
             /\ issued' = LastTwo(Append(issued, rl.clock))
             /\ clock' = rl.clock + dur
             /\ ccall' = [op |-> "search", slept |-> rl.slept,
                          sleep_time |-> rl.sleep_time, first |-> (issued = <<>>),
                          elapsed |-> clock - last_request_time,
                          since_completed |-> IF ccall.op = "idle" THEN <<>>
                                              ELSE <<clock - ccall.completed>>,
                          completed |-> rl.clock + dur,
                          reply |-> reply, raised |-> out.raised,
                          message |-> out.message, results |-> out.results]
             /\ UNCHANGED <<storeVars, notifyVars, fetchVars, schedVars>>

\* get_paper_by_id of the client: the same steps
ClientGetPaperById ==
    \E reply \in Replies :
      \E out \in {client_get_paper_by_id(reply)} :
        \E lag \in 0..MaxLag, dur \in 0..MaxDur :
          LET rl == enforce_rate_limit(clock, last_request_time, lag)
          IN /\ rl.clock + dur <= MaxClock
             /\ last_request_time' = rl.last_request_time
             /\ issued' = LastTwo(Append(issued, rl.clock))
             /\ clock' = rl.clock + dur
             /\ ccall' = [op |-> "get_paper_by_id", slept |-> rl.slept,
                          sleep_time |-> rl.sleep_time, first |-> (issued = <<>>),
                          elapsed |-> clock - last_request_time,
                          since_completed |-> IF ccall.op = "idle" THEN <<>>
                                              ELSE <<clock - ccall.completed>>,
                          completed |-> rl.clock + dur,
                          reply |-> reply, raised |-> out.raised,
                          message |-> out.message, results |-> out.results]
             /\ UNCHANGED <<storeVars, notifyVars, fetchVars, schedVars>>

\* time passes between two calls
Tick ==
    /\ clock < MaxClock
    /\ clock' = clock + 1
    /\ UNCHANGED <<last_request_time, issued, ccall>>
    /\ UNCHANGED <<storeVars, notifyVars, fetchVars, schedVars>>

ClientNext ==
    \/ Search
    \/ ClientGetPaperById
    \/ Tick

SpecClient == ClientInit /\ [][ClientNext]_vars

(***************************************************************************)
(* notify/slack.py.  The notifier is used as constructed, with             *)
(* use_markdown = False and no important category; max_message_length is   *)
(* an attribute a caller may set.                                          *)
(***************************************************************************)

\* the text appended to a truncated message
TruncationMarker == "... (message truncated)"

\* s[:stop]: a negative stop counts from the end of s
SliceTo(s, stop) ==
    LET n == IF stop >= 0
             THEN (IF stop < Len(s) THEN stop ELSE Len(s))
             ELSE (IF Len(s) + stop > 0 THEN Len(s) + stop ELSE 0)
    IN SubSeq(s, 1, n)

\* s.endswith(suffix)
EndsWith(s, suffix) ==
    /\ Len(suffix) <= Len(s)
    /\ SubSeq(s, Len(s) - Len(suffix) + 1, Len(s)) = suffix

\* the message is cut at max_message_length, leaving no room for the marker
truncate_message_no_room(n, message) ==
    IF Len(message) <= n.max_message_length
    THEN message
    ELSE SliceTo(message, n.max_message_length) \o TruncationMarker

\* truncate_message
truncate_message(n, message) ==
    IF Len(message) <= n.max_message_length
    THEN message
    ELSE SliceTo(message, n.max_message_length - 25) \o TruncationMarker

\* separator.join(items)
RECURSIVE Join(_, _)
Join(separator, items) ==
    IF items = <<>> THEN ""
    ELSE IF Len(items) = 1 THEN items[1]
    ELSE items[1] \o separator \o Join(separator, Tail(items))

\* s.split('.')[0]
RECURSIVE BeforeDot(_)
BeforeDot(s) ==
    IF s = "" \/ SubSeq(s, 1, 1) = "." THEN ""
    ELSE SubSeq(s, 1, 1) \o BeforeDot(SubSeq(s, 2, Len(s)))

\* datetime.fromisoformat accepts the text: YYYY-MM-DD, alone or followed by
\* a separator and HH:MM:SS
IsIsoFormat(s) ==
    /\ Len(s) \in {10, 19}
    /\ SubSeq(s, 5, 5) = "-"
    /\ SubSeq(s, 8, 8) = "-"
    /\ Len(s) = 19 => (SubSeq(s, 14, 14) = ":" /\ SubSeq(s, 17, 17) = ":")

\* the date shown for published_date (lines 86-99 and 185-195): the day of
\* the parsed date, or the original string if it does not parse
PublishedText(date_str) ==
    LET unzoned == IF EndsWith(date_str, "Z") THEN SliceTo(date_str, -1) ELSE date_str
        whole == IF Contains(unzoned, ".") THEN BeforeDot(unzoned) ELSE unzoned
    IN IF IsIsoFormat(whole) THEN SubSeq(whole, 1, 10) ELSE date_str

\* format_paper_message
format_paper_message(n, paper) ==
    "Title: " \o paper.title \o "\n"
    \o "Authors: " \o Join(", ", Get(paper, "authors", <<"Unknown">>)) \o "\n"
    \o (IF "published_date" \in DOMAIN paper
        THEN "Published: " \o PublishedText(paper.published_date) \o "\n"
        ELSE "")
    \o (IF "category" \in DOMAIN paper
        THEN "Category: " \o paper.category \o "\n"
        ELSE "")
    \o "Abstract: " \o Get(paper, "summary", "No abstract available") \o "\n"
    \o "Link: " \o Get(paper, "pdf_url", "No PDF available") \o "\n\n"

\* papers[:max_papers] if max_papers is not None and max_papers < len(papers);
\* max_papers is <<>> for None
Displayed(papers, max_papers) ==
    IF max_papers # <<>> /\ max_papers[1] < Len(papers)
    THEN SubSeq(papers, 1, max_papers[1])
    ELSE papers

Limited(papers, max_papers) ==
    max_papers # <<>> /\ max_papers[1] < Len(papers)

RECURSIVE PaperMessages(_, _)
PaperMessages(n, papers) ==
    IF papers = <<>> THEN ""
    ELSE format_paper_message(n, Head(papers)) \o PaperMessages(n, Tail(papers))

\* format_papers_message
format_papers_message(n, papers, pre_message, post_message, max_papers) ==
    IF papers = <<>>
    THEN "No papers to display."
    ELSE LET displayed_papers == Displayed(papers, max_papers)
             message ==
                 (IF pre_message # "" THEN pre_message \o "\n\n" ELSE "")
                 \o (IF Limited(papers, max_papers)
                     THEN "Showing " \o ToString(Len(displayed_papers)) \o " of "
                          \o ToString(Len(papers)) \o " papers\n\n"
                     ELSE "")
                 \o PaperMessages(n, displayed_papers)
                 \o (IF post_message # "" THEN "\n" \o post_message ELSE "")
         IN truncate_message(n, message)

\* format_paper_blocks: header, authors and date, abstract, the PDF button if
\* there is a pdf_url, and a divider
format_paper_blocks(n, paper) ==
    LET authors_text == "*Authors:* " \o Join(", ", Get(paper, "authors", <<"Unknown">>))
        date_text == IF "published_date" \in DOMAIN paper
                     THEN "*Published:* " \o PublishedText(paper.published_date)
                     ELSE ""
        category_text == IF "category" \in DOMAIN paper
                         THEN "*Category:* " \o paper.category
                         ELSE ""
        metadata_text == authors_text \o "\n" \o date_text
                         \o (IF category_text # "" THEN "\n" \o category_text ELSE "")
        given == Get(paper, "summary", "No abstract available")
        summary == IF Len(given) > 2900
                   THEN SliceTo(given, 2900) \o "... (truncated)"
                   ELSE given
    IN <<[type |-> "header", text |-> SliceTo(paper.title, 150)],
         [type |-> "section", text |-> metadata_text],
         [type |-> "section", text |-> "*Abstract:*\n" \o summary]>>
       \o (IF "pdf_url" \in DOMAIN paper
           THEN <<[type |-> "actions", url |-> paper.pdf_url]>>
           ELSE <<>>)
       \o <<[type |-> "divider"]>>

RECURSIVE PaperBlocks(_, _)
PaperBlocks(n, papers) ==
    IF papers = <<>> THEN <<>>
    ELSE format_paper_blocks(n, Head(papers)) \o PaperBlocks(n, Tail(papers))

\* format_papers_blocks
format_papers_blocks(n, papers, max_papers) ==
    IF papers = <<>>
    THEN <<[type |-> "section", text |-> "No papers to display."]>>
    ELSE LET displayed_papers == Displayed(papers, max_papers)
         IN (IF Limited(papers, max_papers)
             THEN <<[type |-> "section",
                     text |-> "Showing " \o ToString(Len(displayed_papers)) \o " of "
                              \o ToString(Len(papers)) \o " papers"]>>
             ELSE <<>>)
            \o PaperBlocks(n, displayed_papers)

\* not webhook_url
NoWebhook(webhook_url) == webhook_url \in {None, ""}

\* what requests.post does: it raises, or returns a response with a status
StatusCodes == {200, 201, 204, 302, 400, 404, 500}

PostReplies ==
    { [kind |-> "ConnectionError"], [kind |-> "Timeout"] }
    \cup { [kind |-> "response", status_code |-> st] : st \in StatusCodes }

\* the try block of post_message_to_slack and post_blocks_to_slack: the
\* request made, the value returned and the exception that leaves the method
Post(webhook_url, payload, reply) ==
    [posts |-> <<[url |-> webhook_url, payload |-> payload]>>,
     returned |-> IF reply.kind = "response" THEN reply.status_code = 200 ELSE FALSE,
     raised |-> None]

NotPosted == [posts |-> <<>>, returned |-> FALSE, raised |-> None]

\* the exception of requests.post is not caught
post_message_to_slack_uncaught(n, message, webhook_url, reply) ==
    IF message = "" \/ NoWebhook(webhook_url)
    THEN NotPosted
    ELSE LET r == Post(webhook_url, [text |-> truncate_message(n, message)], reply)
         IN IF reply.kind = "response" THEN r ELSE [r EXCEPT !.raised = reply.kind]

\* post_message_to_slack
post_message_to_slack(n, message, webhook_url, reply) ==
    IF message = "" \/ NoWebhook(webhook_url)
    THEN NotPosted
    ELSE Post(webhook_url, [text |-> truncate_message(n, message)], reply)

\* post_blocks_to_slack
post_blocks_to_slack(n, blocks, webhook_url, reply) ==
    IF blocks = <<>> \/ NoWebhook(webhook_url)
    THEN NotPosted
    ELSE Post(webhook_url, [blocks |-> blocks], reply)

\* paper['title'] of the two formatters is read outside any try
Titled(papers) == \A k \in DOMAIN papers : "title" \in DOMAIN papers[k]

\* post_papers_to_slack
post_papers_to_slack(n, papers, webhook_url, use_blocks, max_papers, pre_message, post_message, reply) ==
    IF papers = <<>> \/ NoWebhook(webhook_url)
    THEN NotPosted
    ELSE IF ~Titled(Displayed(papers, max_papers))
    THEN [posts |-> <<>>, returned |-> FALSE, raised |-> "KeyError"]
    ELSE IF use_blocks
    THEN post_blocks_to_slack(n, format_papers_blocks(n, papers, max_papers),
                              webhook_url, reply)
    ELSE post_message_to_slack(n, format_papers_message(n, papers, pre_message,
                                                        post_message, max_papers),
                               webhook_url, reply)

\* The papers handed to the notifier: a paper as a search returns it, a paper
\* with a category and an ISO date, and a paper with the required keys only.
Dated ==
    [id |-> U1, title |-> "T1", summary |-> "S1",
     published_date |-> "2021-04-15T00:00:00Z", pdf_url |-> "P1",
     category |-> "cs.AI", authors |-> <<"a", "b">>]

NotifyPapers ==
    { [id |-> U2, title |-> "T2", summary |-> "S2", published_date |-> "D2",
       pdf_url |-> "P2", authors |-> <<>>],
      Dated, Bare(U2) }

PaperLists == {<<>>} \cup SeqsUpTo(NotifyPapers, MaxNotify)

Webhooks == {None, "", "https://hooks.slack.com/services/x"}

PreMessages == {"", "New arXiv papers matching your criteria:"}

\* 'A' * k
RECURSIVE Repeat(_, _)
Repeat(c, k) == IF k = 0 THEN "" ELSE c \o Repeat(c, k - 1)

(***************************************************************************)
(* One notifier as a state machine.  A call runs to its return in one      *)
(* step; the caller then drops the value (NotifyReturn).                   *)
(***************************************************************************)
NotifyInit ==
    /\ notifier = NewNotifier
    /\ ncall = NoCall
    /\ db = EmptyDb
    /\ pre = EmptyDb
    /\ call = Idle
    /\ clock = 1
    /\ last_request_time = 0
    /\ issued = <<>>
    /\ ccall = [op |-> "idle"]
    /\ fa = FaNotCalled
    /\ dl = DlNotCalled
    /\ sched = NewScheduler
    /\ statefile = <<>>
    /\ now = 0
    /\ failed_at = <<>>
    /\ delivery = NoDelivery
    /\ hcall = NoCall

\* notifier.max_message_length = limit
SetMaxMessageLength ==
    \E limit \in 0..MaxLimit :
        /\ ncall = NoCall
        /\ notifier' = [notifier EXCEPT !.max_message_length = limit]
        /\ UNCHANGED <<ncall, storeVars, clientVars, fetchVars, schedVars>>

TruncateMessage ==
    \E k \in 0..MaxMessage :
        /\ ncall = NoCall
        /\ ncall' = [op |-> "truncate_message", message |-> Repeat("A", k),
                     text |-> truncate_message(notifier, Repeat("A", k))]
        /\ UNCHANGED <<notifier, storeVars, clientVars, fetchVars, schedVars>>

FormatPapersMessage ==
    \E papers \in PaperLists, pre_message \in PreMessages,
       max_papers \in {<<>>, <<1>>} :
        /\ ncall = NoCall
        /\ ncall' = [op |-> "format_papers_message", papers |-> papers,
                     text |-> format_papers_message(notifier, papers, pre_message,
                                                    "", max_papers)]
        /\ UNCHANGED <<notifier, storeVars, clientVars, fetchVars, schedVars>>

PostMessageToSlack ==
    \E k \in {0, 1, MaxMessage}, webhook_url \in Webhooks, reply \in PostReplies :
        LET r == post_message_to_slack(notifier, Repeat("A", k), webhook_url, reply)
        IN /\ ncall = NoCall
           /\ ncall' = [op |-> "post_message_to_slack", empty |-> (k = 0),
                        webhook_url |-> webhook_url, reply |-> reply,
                        posts |-> r.posts, returned |-> r.returned,
                        raised |-> r.raised]
           /\ UNCHANGED <<notifier, storeVars, clientVars, fetchVars, schedVars>>

PostBlocksToSlack ==
    \E papers \in PaperLists, webhook_url \in Webhooks, reply \in PostReplies :
        LET blocks == IF papers = <<>> THEN <<>>
                      ELSE format_papers_blocks(notifier, papers, <<>>)
            r == post_blocks_to_slack(notifier, blocks, webhook_url, reply)
        IN /\ ncall = NoCall
           /\ ncall' = [op |-> "post_blocks_to_slack", empty |-> (blocks = <<>>),
                        webhook_url |-> webhook_url, reply |-> reply,
                        posts |-> r.posts, returned |-> r.returned,
                        raised |-> r.raised]
           /\ UNCHANGED <<notifier, storeVars, clientVars, fetchVars, schedVars>>

PostPapersToSlack ==
    \E papers \in PaperLists, webhook_url \in Webhooks, use_blocks \in BOOLEAN,
       reply \in PostReplies :
        LET r == post_papers_to_slack(notifier, papers, webhook_url, use_blocks,
                                      <<>>, "", "", reply)
        IN /\ ncall = NoCall
           /\ ncall' = [op |-> "post_papers_to_slack", empty |-> (papers = <<>>),
                        webhook_url |-> webhook_url, reply |-> reply,
                        posts |-> r.posts, returned |-> r.returned,
                        raised |-> r.raised]
           /\ UNCHANGED <<notifier, storeVars, clientVars, fetchVars, schedVars>>

NotifyReturn ==
    /\ ncall # NoCall
    /\ ncall' = NoCall
    /\ UNCHANGED <<notifier, storeVars, clientVars, fetchVars, schedVars>>

NotifyNext ==
    \/ SetMaxMessageLength
    \/ TruncateMessage
    \/ FormatPapersMessage
    \/ PostMessageToSlack
    \/ PostBlocksToSlack
    \/ PostPapersToSlack
    \/ NotifyReturn

SpecNotify == NotifyInit /\ [][NotifyNext]_vars

(***************************************************************************)
(* scheduler/scheduler.py                                                  *)
(***************************************************************************)

\* the interval is reached only when more than the interval has passed
is_time_to_run_strict(s, today) ==
    IF s.last_run_time = <<>>
    THEN TRUE
    ELSE LET interval == IF s.schedule_type = "daily" THEN 1
                         ELSE IF s.schedule_type = "weekly" THEN 7
                         ELSE IF s.schedule_type = "monthly" THEN 30
                         ELSE 7
         IN (today - s.last_run_time[1]) > interval

\* is_time_to_run, called when datetime.now() is today
is_time_to_run(s, today) ==
    IF s.last_run_time = <<>>
    THEN TRUE
    ELSE LET interval == IF s.schedule_type = "daily" THEN 1
                         ELSE IF s.schedule_type = "weekly" THEN 7
                         ELSE IF s.schedule_type = "monthly" THEN 30
                         ELSE 7
         IN (today - s.last_run_time[1]) >= interval

\* the values given to set_schedule: the three classes and another value
ScheduleTypes == {"daily", "weekly", "monthly", "hourly"}

\* what one api_client.search of a cycle does: it raises, or returns papers
HarvestPages ==
    {<<>>}
    \cup { <<p>> : p \in { x \in FetchedPapers : x.title = "T1" } }
    \cup { <<p, q>> : p \in { x \in FetchedPapers : x.id = U1 },
                      q \in { x \in FetchedPapers : x.id = U2 /\ x.title = "T1" } }

SearchAnswers ==
    { [kind |-> "fault"] }
    \cup { [kind |-> "papers", papers |-> ps] : ps \in HarvestPages }

\* the answers to the searches of one fetch_papers that plans `planned`
\* searches: every search but the last made is answered with papers, and
\* fewer searches are made only when the last one faults
AnswerLists(planned) ==
    { a \in SeqsUpTo(SearchAnswers, planned) :
        /\ \A k \in 1..(Len(a) - 1) : a[k].kind = "papers"
        /\ Len(a) < planned => a[Len(a)].kind = "fault" }

\* the searches of fetch_papers from position k of `categories`, answered
\* in turn by answers[k]; the first exception ends the loop
RECURSIVE FetchLoop(_, _, _, _, _)
FetchLoop(categories, answers, k, all_papers, searches) ==
    IF k > Len(categories)
    THEN [raised |-> None, papers |-> all_papers, searches |-> searches]
    ELSE LET made == Append(searches, [ev |-> "search", category |-> categories[k]])
         IN IF answers[k].kind = "fault"
            THEN [raised |-> "Exception", papers |-> <<>>, searches |-> made]
            ELSE FetchLoop(categories, answers, k + 1,
                           all_papers \o answers[k].papers, made)

\* only the first category is searched
fetch_papers_first_category(s, answers) ==
    IF s.categories # <<>>
    THEN FetchLoop(<<s.categories[1]>>, answers, 1, <<>>, <<>>)
    ELSE FetchLoop(<<None>>, answers, 1, <<>>, <<>>)

\* an exception of a search is dropped and the papers so far are returned
fetch_papers_swallowed(s, answers) ==
    LET r == IF s.categories # <<>>
             THEN FetchLoop(s.categories, answers, 1, <<>>, <<>>)
             ELSE FetchLoop(<<None>>, answers, 1, <<>>, <<>>)
    IN [r EXCEPT !.raised = None]

\* fetch_papers: one search per category, or one search without category;
\* any exception is raised again as Exception("Error fetching papers: ...")
fetch_papers(s, answers) ==
    IF s.categories # <<>>
    THEN FetchLoop(s.categories, answers, 1, <<>>, <<>>)
    ELSE FetchLoop(<<None>>, answers, 1, <<>>, <<>>)

\* a delivery that fails is raised as an exception
send_notifications_raises(s, n, papers, reply) ==
    LET r == IF papers = <<>> \/ NoWebhook(s.slack_webhook)
             THEN NotPosted
             ELSE post_papers_to_slack(n, papers, s.slack_webhook, TRUE, <<>>,
                                       "New arXiv papers matching your criteria:",
                                       "", reply)
    IN IF r.returned THEN r ELSE [r EXCEPT !.raised = "Exception"]

\* send_notifications: the value returned and the requests made
send_notifications(s, n, papers, reply) ==
    IF papers = <<>> \/ NoWebhook(s.slack_webhook)
    THEN NotPosted
    ELSE post_papers_to_slack(n, papers, s.slack_webhook, TRUE, <<>>,
                              "New arXiv papers matching your criteria:", "", reply)

\* datetime.isoformat()
IsoFormat(t) == ToString(t)

\* the dictionary save_state writes
StateOf(s) ==
    [query |-> s.query, categories |-> s.categories, max_results |-> s.max_results,
     slack_webhook |-> s.slack_webhook, schedule_type |-> s.schedule_type,
     last_run_time |-> IF s.last_run_time = <<>> THEN <<>>
                       ELSE <<IsoFormat(s.last_run_time[1])>>]

\* the value of a decimal digit
DigitValue(c) ==
    CASE c = "0" -> 0 [] c = "1" -> 1 [] c = "2" -> 2 [] c = "3" -> 3
      [] c = "4" -> 4 [] c = "5" -> 5 [] c = "6" -> 6 [] c = "7" -> 7
      [] c = "8" -> 8 [] c = "9" -> 9

\* datetime.fromisoformat(): the text is read digit by digit
RECURSIVE FromIsoFormat(_)
FromIsoFormat(text) ==
    IF Len(text) = 0
    THEN 0
    ELSE 10 * FromIsoFormat(SubSeq(text, 1, Len(text) - 1))
         + DigitValue(SubSeq(text, Len(text), Len(text)))

\* save_state(state_file): the file afterwards
save_state(s, file, state_file) ==
    IF state_file = None /\ s.state_file = None
    THEN file
    ELSE <<StateOf(s)>>

\* the last run time of the file is not applied
load_state_without_time(s, file, state_file) ==
    LET target_file == IF state_file # None THEN state_file ELSE s.state_file
    IN IF target_file = None \/ file = <<>>
       THEN s
       ELSE LET state == file[1]
            IN [s EXCEPT !.query = state.query,
                         !.categories = state.categories,
                         !.max_results = state.max_results,
                         !.slack_webhook = state.slack_webhook,
                         !.schedule_type = state.schedule_type]

\* load_state(state_file) on scheduler s when the file is `file` (<<>> when
\* it does not exist): the scheduler afterwards
load_state(s, file, state_file) ==
    LET target_file == IF state_file # None THEN state_file ELSE s.state_file
    IN IF target_file = None \/ file = <<>>
       THEN s
       ELSE LET state == file[1]
                last_run_str == state.last_run_time
            IN [s EXCEPT !.query = state.query,
                         !.categories = state.categories,
                         !.max_results = state.max_results,
                         !.slack_webhook = state.slack_webhook,
                         !.schedule_type = state.schedule_type,
                         !.last_run_time =
                             IF last_run_str # <<>>
                             THEN <<FromIsoFormat(last_run_str[1])>>
                             ELSE <<>>]

\* the cycle returns without saving the state
HarvestEndNoSave(s, d, file, new_papers, events) ==
    [sched |-> s, db |-> d, statefile |-> file, new_papers |-> new_papers,
     events |-> events, raised |-> None, returned |-> TRUE]

\* lines 331-335: the state is saved if a state file is set; return True
HarvestEnd(s, d, file, new_papers, events) ==
    IF s.state_file # None
    THEN [sched |-> s, db |-> d, statefile |-> save_state(s, file, s.state_file),
          new_papers |-> new_papers,
          events |-> Append(events, [ev |-> "save_state", state_file |-> s.state_file]),
          raised |-> None, returned |-> TRUE]
    ELSE [sched |-> s, db |-> d, statefile |-> file, new_papers |-> new_papers,
          events |-> events, raised |-> None, returned |-> TRUE]

\* the exception leaves run_harvest
HarvestFailedPropagates(s, d, file, new_papers, events) ==
    [sched |-> s, db |-> d, statefile |-> file, new_papers |-> new_papers,
     events |-> events, raised |-> "Exception", returned |-> FALSE]

\* lines 337-339: except Exception: print(...); return False.  Nothing
\* leaves run_harvest as an exception.
HarvestFailed(s, d, file, new_papers, events) ==
    [sched |-> s, db |-> d, statefile |-> file, new_papers |-> new_papers,
     events |-> events, raised |-> None, returned |-> FALSE]

\* the last run time is set once the fetch has succeeded
run_harvest_time_after_fetch(s, d, n, file, today, answers, failing, reply) ==
    LET s1 == [s EXCEPT !.last_run_time = <<today>>]
        began == <<[ev |-> "set_last_run_time", run_time |-> today]>>
        fetched == fetch_papers(s, answers)
        made == fetched.searches \o began
        new_papers == filter_new_papers(d, fetched.papers).new_papers
        stored == store_papers(d, new_papers, failing)
        sent == send_notifications(s1, n, new_papers, reply)
        upsert == [ev |-> "store_papers", papers |-> new_papers]
        notify == [ev |-> "send_notifications", papers |-> new_papers,
                   posts |-> sent.posts, delivered |-> sent.returned]
    IN IF fetched.raised # None
       THEN HarvestFailed(s, d, file, <<>>, fetched.searches)
       ELSE IF new_papers = <<>>
       THEN HarvestEnd(s1, d, file, new_papers, made)
       ELSE IF stored.raised # None
       THEN HarvestFailed(s1, stored.db, file, new_papers,
                          made \o <<upsert>>)
       ELSE IF sent.raised # None
       THEN HarvestFailed(s1, stored.db, file, new_papers,
                          made \o <<upsert, notify>>)
       ELSE HarvestEnd(s1, stored.db, file, new_papers,
                       made \o <<upsert, notify>>)

\* the new papers are notified before they are stored
run_harvest_notify_first(s, d, n, file, today, answers, failing, reply) ==
    LET s1 == [s EXCEPT !.last_run_time = <<today>>]
        began == <<[ev |-> "set_last_run_time", run_time |-> today]>>
        fetched == fetch_papers(s1, answers)
        made == began \o fetched.searches
        new_papers == filter_new_papers(d, fetched.papers).new_papers
        stored == store_papers(d, new_papers, failing)
        sent == send_notifications(s1, n, new_papers, reply)
        notify == [ev |-> "send_notifications", papers |-> new_papers,
                   posts |-> sent.posts, delivered |-> sent.returned]
        upsert == [ev |-> "store_papers", papers |-> new_papers]
    IN IF fetched.raised # None
       THEN HarvestFailed(s1, d, file, <<>>, made)
       ELSE IF new_papers = <<>>
       THEN HarvestEnd(s1, d, file, new_papers, made)
       ELSE IF sent.raised # None
       THEN HarvestFailed(s1, d, file, new_papers, made \o <<notify>>)
       ELSE IF stored.raised # None
       THEN HarvestFailed(s1, stored.db, file, new_papers,
                          made \o <<notify, upsert>>)
       ELSE HarvestEnd(s1, stored.db, file, new_papers,
                       made \o <<notify, upsert>>)

\* run_harvest on scheduler s with database d, notifier n and state file
\* `file`, when datetime.now() is today: the searches are answered by
\* `answers`, _insert_author fails for the name `failing`, and requests.post
\* does `reply`.  Returns the scheduler, the database and the state file
\* afterwards, the new papers, the calls made in order and the value returned.
run_harvest(s, d, n, file, today, answers, failing, reply) ==
    LET s1 == [s EXCEPT !.last_run_time = <<today>>]
        began == <<[ev |-> "set_last_run_time", run_time |-> today]>>
        fetched == fetch_papers(s1, answers)
        made == began \o fetched.searches
        new_papers == filter_new_papers(d, fetched.papers).new_papers
        stored == store_papers(d, new_papers, failing)
        sent == send_notifications(s1, n, new_papers, reply)
        upsert == [ev |-> "store_papers", papers |-> new_papers]
        notify == [ev |-> "send_notifications", papers |-> new_papers,
                   posts |-> sent.posts, delivered |-> sent.returned]
    IN IF fetched.raised # None
       THEN HarvestFailed(s1, d, file, <<>>, made)
       ELSE IF new_papers = <<>>
       THEN HarvestEnd(s1, d, file, new_papers, made)
       ELSE IF stored.raised # None
       THEN HarvestFailed(s1, stored.db, file, new_papers,
                          made \o <<upsert>>)
       ELSE IF sent.raised # None
       THEN HarvestFailed(s1, stored.db, file, new_papers,
                          made \o <<upsert, notify>>)
       ELSE HarvestEnd(s1, stored.db, file, new_papers,
                       made \o <<upsert, notify>>)

\* the category lists, webhook addresses and state file paths a scheduler is
\* configured with
CategoryLists == { <<>>, <<"cs.AI">>, <<"cs.AI", "cs.LG">> }

HarvestWebhooks == {None, "https://hooks.slack.com/services/x"}

StateFiles == {None, "state.json"}

\* the author name for which the store is made to fail during a cycle
HarvestFaultNames == {None, "a"}

\* what requests.post does during a cycle
HarvestReplies ==
    { [kind |-> "ConnectionError"], [kind |-> "response", status_code |-> 200],
      [kind |-> "response", status_code |-> 500] }

(***************************************************************************)
(* The schedule: days pass, the schedule and the last run time are set,    *)
(* and is_time_to_run is asked.                                            *)
(***************************************************************************)
DueInit ==
    /\ sched = NewScheduler
    /\ statefile = <<>>
    /\ now = 0
    /\ failed_at = <<>>
    /\ delivery = NoDelivery
    /\ hcall = NoCall
    /\ db = EmptyDb
    /\ pre = EmptyDb
    /\ call = Idle
    /\ clock = 1
    /\ last_request_time = 0
    /\ issued = <<>>
    /\ ccall = [op |-> "idle"]
    /\ notifier = NewNotifier
    /\ ncall = NoCall
    /\ fa = FaNotCalled
    /\ dl = DlNotCalled

\* set_schedule
SetSchedule ==
    \E schedule_type \in ScheduleTypes :
        /\ sched' = [sched EXCEPT !.schedule_type = schedule_type]
        /\ hcall' = NoCall
        /\ UNCHANGED <<failed_at, delivery, statefile, now, storeVars, clientVars, notifyVars, fetchVars>>

\* set_last_run_time
SetLastRunTime ==
    \E run_time \in 0..MaxDay :
        /\ sched' = [sched EXCEPT !.last_run_time = <<run_time>>]
        /\ hcall' = NoCall
        /\ UNCHANGED <<failed_at, delivery, statefile, now, storeVars, clientVars, notifyVars, fetchVars>>

\* a day passes
DayPasses ==
    /\ now < MaxDay
    /\ now' = now + 1
    /\ hcall' = NoCall
    /\ UNCHANGED <<failed_at, delivery, sched, statefile, storeVars, clientVars, notifyVars, fetchVars>>

IsTimeToRun ==
    /\ hcall' = [op |-> "is_time_to_run", returned |-> is_time_to_run(sched, now)]
    /\ UNCHANGED <<failed_at, delivery, sched, statefile, now, storeVars, clientVars, notifyVars, fetchVars>>

DueNext ==
    \/ SetSchedule
    \/ SetLastRunTime
    \/ DayPasses
    \/ IsTimeToRun

SpecDue == DueInit /\ [][DueNext]_vars

(***************************************************************************)
(* The harvest cycles of one scheduler on one store, a week apart.  The    *)
(* scheduler has been configured through set_search_parameters,            *)
(* set_slack_webhook and set_state_file.  A cycle runs to its return in    *)
(* one step; its caller then drops the value (HarvestReturn).              *)
(***************************************************************************)
HarvestInit ==
    /\ sched \in { [NewScheduler EXCEPT !.query = "q", !.categories = categories,
                                        !.slack_webhook = webhook_url,
                                        !.state_file = state_file] :
                     categories \in CategoryLists, webhook_url \in HarvestWebhooks,
                     state_file \in StateFiles }
    /\ statefile = <<>>
    /\ now = 0
    /\ failed_at = <<>>
    /\ delivery = NoDelivery
    /\ hcall = NoCall
    /\ db = EmptyDb
    /\ pre = EmptyDb
    /\ call = Idle
    /\ clock = 1
    /\ last_request_time = 0
    /\ issued = <<>>
    /\ ccall = [op |-> "idle"]
    /\ notifier = NewNotifier
    /\ ncall = NoCall
    /\ fa = FaNotCalled
    /\ dl = DlNotCalled

\* a week passes between two cycles
WeekPasses ==
    /\ hcall = NoCall
    /\ now + 7 <= MaxHarvestDay
    /\ now' = now + 7
    /\ UNCHANGED <<failed_at, delivery, sched, statefile, hcall, storeVars, clientVars, notifyVars,
                   fetchVars>>

\* requests.post is not called
NoReply == [kind |-> "none"]

\* run_harvest.  The store fault and the reply of the sink are chosen only
\* for a cycle that comes to store and to post.
RunHarvest ==
    \E answers \in AnswerLists(IF sched.categories = <<>> THEN 1
                               ELSE Len(sched.categories)) :
        LET fetched == fetch_papers(sched, answers)
            new == IF fetched.raised # None THEN <<>>
                   ELSE filter_new_papers(db, fetched.papers).new_papers
        IN \E failing \in (IF new = <<>> THEN {None} ELSE HarvestFaultNames) :
             \E reply \in (IF /\ new # <<>>
                              /\ store_papers(db, new, failing).raised = None
                              /\ ~NoWebhook(sched.slack_webhook)
                           THEN HarvestReplies ELSE {NoReply}) :
               LET r == run_harvest(sched, db, notifier, statefile, now, answers,
                                    failing, reply)
               IN /\ hcall = NoCall
                  /\ r.db.seq <= MaxAuthorId
                  /\ sched' = r.sched
                  /\ db' = r.db
                  /\ pre' = db
                  /\ statefile' = r.statefile
                  /\ hcall' = [op |-> "run_harvest", answers |-> answers,
                               failing |-> failing, reply |-> reply,
                               statefile_before |-> statefile,
                               new_papers |-> r.new_papers, events |-> r.events,
                               raised |-> r.raised, returned |-> r.returned]
                  /\ UNCHANGED <<failed_at, delivery, now, call, clientVars, notifyVars, fetchVars>>

\* fetch_papers, called on its own
FetchPapers ==
    \E answers \in AnswerLists(IF sched.categories = <<>> THEN 1
                               ELSE Len(sched.categories)) :
        LET r == fetch_papers(sched, answers)
        IN /\ hcall = NoCall
           /\ hcall' = [op |-> "fetch_papers", answers |-> answers,
                        events |-> r.searches, papers |-> r.papers,
                        raised |-> r.raised]
           /\ UNCHANGED <<failed_at, delivery, sched, statefile, now, storeVars, clientVars,
                          notifyVars, fetchVars>>

\* the short identifiers of the papers a cycle called send_notifications
\* with, given the calls the cycle made; `delivered` selects the calls that
\* returned that value
NotifiedIds(events, delivered) ==
    UNION { { ArxivId(e.papers[k].id) : k \in DOMAIN e.papers } :
            e \in { events[k] : k \in { j \in DOMAIN events :
                        /\ events[j].ev = "send_notifications"
                        /\ events[j].delivered = delivered } } }

\* the caller drops the value of the call; the papers a cycle passed to
\* notification (send_notifications is called after store_papers has
\* committed them) are added to those of the cycles before it
HarvestReturn ==
    /\ hcall # NoCall
    /\ hcall' = NoCall
    /\ pre' = db
    /\ delivery' =
          IF hcall.op = "run_harvest"
          THEN [passed |-> delivery.passed
                             \cup NotifiedIds(hcall.events, TRUE)
                             \cup NotifiedIds(hcall.events, FALSE),
                undelivered |-> (delivery.undelivered
                                   \cup NotifiedIds(hcall.events, FALSE))
                                \ NotifiedIds(hcall.events, TRUE)]
          ELSE delivery
    /\ UNCHANGED <<failed_at, sched, statefile, now, db, call, clientVars, notifyVars, fetchVars>>

HarvestNext ==
    \/ WeekPasses
    \/ RunHarvest
    \/ FetchPapers
    \/ HarvestReturn

SpecHarvest == HarvestInit /\ [][HarvestNext]_vars

(***************************************************************************)
(* The state file: a configured scheduler saves its state, a fresh         *)
(* scheduler loads the file, and the scheduler loads the file itself.      *)
(***************************************************************************)

\* the values the scheduler is configured with
Queries == {"", "q"}

MaxResults == {50, 10}

RunTimes == {<<>>} \cup { <<t>> : t \in {0, 7, 10, MaxDay} }

StateInit ==
    /\ sched \in { [query |-> query, categories |-> categories,
                    max_results |-> max_results, slack_webhook |-> webhook_url,
                    schedule_type |-> "weekly", last_run_time |-> run_time,
                    state_file |-> state_file] :
                     query \in Queries, categories \in CategoryLists,
                     max_results \in MaxResults, webhook_url \in HarvestWebhooks,
                     run_time \in RunTimes, state_file \in StateFiles }
    /\ statefile = <<>>
    /\ now = 0
    /\ failed_at = <<>>
    /\ delivery = NoDelivery
    /\ hcall = NoCall
    /\ db = EmptyDb
    /\ pre = EmptyDb
    /\ call = Idle
    /\ clock = 1
    /\ last_request_time = 0
    /\ issued = <<>>
    /\ ccall = [op |-> "idle"]
    /\ notifier = NewNotifier
    /\ ncall = NoCall
    /\ fa = FaNotCalled
    /\ dl = DlNotCalled

\* save_state(state_file)
SaveState ==
    \E state_file \in StateFiles :
        /\ statefile' = save_state(sched, statefile, state_file)
        /\ hcall' = [op |-> "save_state", saved |-> sched,
                     written |-> (state_file # None \/ sched.state_file # None)]
        /\ UNCHANGED <<failed_at, delivery, sched, now, storeVars, clientVars, notifyVars, fetchVars>>

\* Scheduler(...).load_state(state_file), after a save_state
LoadStateFresh ==
    \E state_file \in StateFiles \ {None} :
        /\ hcall.op = "save_state"
        /\ hcall' = [op |-> "load_state on a fresh scheduler",
                     saved |-> hcall.saved, written |-> hcall.written,
                     loaded |-> load_state(NewScheduler, statefile, state_file)]
        /\ UNCHANGED <<failed_at, delivery, sched, statefile, now, storeVars, clientVars, notifyVars,
                       fetchVars>>

\* load_state(state_file) on the scheduler itself
LoadState ==
    \E state_file \in StateFiles :
        /\ sched' = load_state(sched, statefile, state_file)
        /\ hcall' = [op |-> "load_state", before |-> sched,
                     exists |-> (statefile # <<>>)]
        /\ UNCHANGED <<failed_at, delivery, statefile, now, storeVars, clientVars, notifyVars, fetchVars>>

StateNext ==
    \/ SetSchedule
    \/ SaveState
    \/ LoadStateFresh
    \/ LoadState

SpecState == StateInit /\ [][StateNext]_vars

(***************************************************************************)
(* main: one invocation of the scheduler's command line.  Every invocation *)
(* is a new process with a new Scheduler; the store and the state file     *)
(* stay from one invocation to the next.                                   *)
(***************************************************************************)

\* the position of the first comma of text from position k on, 0 if none
RECURSIVE CommaAt(_, _)
CommaAt(text, k) ==
    IF k > Len(text) THEN 0
    ELSE IF SubSeq(text, k, k) = "," THEN k
    ELSE CommaAt(text, k + 1)

\* text.split(",")
RECURSIVE SplitCommas(_)
SplitCommas(text) ==
    LET k == CommaAt(text, 1)
    IN IF k = 0
       THEN <<text>>
       ELSE <<SubSeq(text, 1, k - 1)>> \o SplitCommas(SubSeq(text, k + 1, Len(text)))

\* if x: for an argument that is None or a string
Truthy(x) == x # None /\ x # ""

\* apply_arguments on scheduler s when the state file is `file`
apply_arguments(s, args, file) ==
    LET s1 == IF Truthy(args.query)
              THEN [s EXCEPT !.query = args.query,
                             !.categories = IF Truthy(args.categories)
                                            THEN SplitCommas(args.categories)
                                            ELSE <<>>,
                             !.max_results = IF args.max_results # None
                                             THEN args.max_results
                                             ELSE s.max_results]
              ELSE s
        s2 == IF Truthy(args.webhook)
              THEN [s1 EXCEPT !.slack_webhook = args.webhook]
              ELSE s1
        s3 == IF Truthy(args.state_file)
              THEN load_state([s2 EXCEPT !.state_file = args.state_file], file, None)
              ELSE s2
    IN IF Truthy(args.schedule)
       THEN [s3 EXCEPT !.schedule_type = args.schedule]
       ELSE s3

\* the result of a main that runs no cycle
NoCycle(s, d, file) ==
    [sched |-> s, db |-> d, statefile |-> file, new_papers |-> <<>>,
     events |-> <<>>, raised |-> None, cycles |-> <<>>]

\* a cycle is run only when the schedule says so
main_without_force(s, d, n, file, today, args, answers, failing, reply) ==
    LET applied == apply_arguments(s, args, file)
        should_run == is_time_to_run(applied, today)
        r == run_harvest(applied, d, n, file, today, answers, failing, reply)
    IN IF should_run
       THEN [sched |-> r.sched, db |-> r.db, statefile |-> r.statefile,
             new_papers |-> r.new_papers, events |-> r.events,
             raised |-> r.raised, cycles |-> <<r.returned>>]
       ELSE NoCycle(applied, d, file)

\* main on a new scheduler s: apply_arguments, then run_harvest if
\* args.force_run or is_time_to_run().  `cycles` holds the value returned by
\* each run_harvest.
main(s, d, n, file, today, args, answers, failing, reply) ==
    LET applied == apply_arguments(s, args, file)
        should_run == args.force_run \/ is_time_to_run(applied, today)
        r == run_harvest(applied, d, n, file, today, answers, failing, reply)
    IN IF should_run
       THEN [sched |-> r.sched, db |-> r.db, statefile |-> r.statefile,
             new_papers |-> r.new_papers, events |-> r.events,
             raised |-> r.raised, cycles |-> <<r.returned>>]
       ELSE NoCycle(applied, d, file)

\* the command lines: a query and a category, with or without --state-file,
\* --schedule daily and --force-run
MainArgs ==
    { [query |-> query, categories |-> categories, max_results |-> None,
       webhook |-> webhook, state_file |-> state_file, schedule |-> schedule,
       force_run |-> force_run] :
        query \in {"q"}, categories \in {"cs.AI"},
        webhook \in {None}, state_file \in StateFiles,
        schedule \in {None, "daily"}, force_run \in BOOLEAN }

\* no process is running
MainInit ==
    /\ sched = NewScheduler
    /\ statefile = <<>>
    /\ now = 0
    /\ failed_at = <<>>
    /\ delivery = NoDelivery
    /\ hcall = NoCall
    /\ db = EmptyDb
    /\ pre = EmptyDb
    /\ call = Idle
    /\ clock = 1
    /\ last_request_time = 0
    /\ issued = <<>>
    /\ ccall = [op |-> "idle"]
    /\ notifier = NewNotifier
    /\ ncall = NoCall
    /\ fa = FaNotCalled
    /\ dl = DlNotCalled

\* a day passes while no process is running
NextDay ==
    /\ hcall = NoCall
    /\ now < MaxMainDay
    /\ now' = now + 1
    /\ UNCHANGED <<sched, statefile, hcall, failed_at, delivery, storeVars, clientVars,
                   notifyVars, fetchVars>>

\* One invocation: Scheduler(...).main().  The searches, the store fault and
\* the reply of the sink are chosen only for an invocation that comes to
\* them.
Main ==
    \E args \in MainArgs :
      \E applied \in {apply_arguments(NewScheduler, args, statefile)} :
        \E should_run \in {args.force_run \/ is_time_to_run(applied, now)} :
          \E answers \in (IF should_run
                          THEN AnswerLists(IF applied.categories = <<>> THEN 1
                                           ELSE Len(applied.categories))
                          ELSE {<<>>}) :
            \E new \in {IF ~should_run \/ fetch_papers(applied, answers).raised # None
                        THEN <<>>
                        ELSE filter_new_papers(
                                 db, fetch_papers(applied, answers).papers).new_papers} :
              \E failing \in (IF new = <<>> THEN {None} ELSE HarvestFaultNames) :
                \E reply \in (IF /\ new # <<>>
                                 /\ store_papers(db, new, failing).raised = None
                                 /\ ~NoWebhook(applied.slack_webhook)
                              THEN HarvestReplies ELSE {NoReply}) :
                  \E r \in {main(NewScheduler, db, notifier, statefile, now, args,
                                 answers, failing, reply)} :
                    /\ hcall = NoCall
                    /\ r.db.seq <= MaxAuthorId
                    /\ sched' = r.sched
                    /\ db' = r.db
                    /\ pre' = db
                    /\ statefile' = r.statefile
                    /\ delivery' = delivery
                    /\ failed_at' = IF r.cycles = <<>> THEN failed_at
                                    ELSE IF r.cycles[1] THEN <<>>
                                    ELSE <<[state_file |-> r.sched.state_file,
                                            started |-> now]>>
                    /\ hcall' = [op |-> "main", args |-> args,
                                 applied |-> applied,
                                 statefile_before |-> statefile,
                                 failed_before |-> failed_at,
                                 events |-> r.events, raised |-> r.raised,
                                 cycles |-> r.cycles]
                    /\ UNCHANGED <<now, call, clientVars, notifyVars, fetchVars>>

\* the process ends
MainReturn ==
    /\ hcall # NoCall
    /\ hcall' = NoCall
    /\ sched' = NewScheduler
    /\ pre' = db
    /\ UNCHANGED <<statefile, now, failed_at, delivery, db, call, clientVars, notifyVars,
                   fetchVars>>

MainNext ==
    \/ NextDay
    \/ Main
    \/ MainReturn

SpecMain == MainInit /\ [][MainNext]_vars

(***************************************************************************)
(* scripts/search_prompt_engineering.py: fetch_all_papers                  *)
(***************************************************************************)

\* batch_size = 100
batch_size == 100

\* time.sleep(3) between two pages, time.sleep(10) before a retry
page_wait == 3

retry_wait == 10

\* the keyword parameters of ArxivApiClient.search
SearchParameters ==
    {"query", "category", "start_date", "end_date", "max_results",
     "sort_by", "sort_order"}

\* the keyword arguments fetch_all_papers calls api_client.search with
SearchKeywords ==
    {"query", "category", "start_date", "end_date", "max_results", "start",
     "sort_by", "sort_order"}

\* The api_client given to fetch_all_papers: the repository's ArxivApiClient,
\* or an object whose search also takes `start` and answers with the records
\* start+1 .. start+max_results of the upstream result list.
ApiClients ==
    { [class |-> "ArxivApiClient", parameters |-> SearchParameters],
      [class |-> "PagingClient", parameters |-> SearchParameters \cup {"start"}] }

\* the sizes of the upstream result list: around each multiple of batch_size
Totals ==
    { n \in 0..MaxTotal : n % batch_size \in {0, 1, batch_size - 1} }

\* the page of at most max_results records after the first `start`; a record
\* is written as its position in the upstream list
Page(total, start, max_results) ==
    LET left == IF total > start THEN total - start ELSE 0
        n == IF left < max_results THEN left ELSE max_results
    IN [k \in 1..n |-> start + k]

\* the call of fetch_all_papers, before the first pass of its loop
FaInit ==
    /\ fa \in { [api_client |-> c, total |-> t, pc |-> "loop", start |-> 0,
                 all_papers |-> <<>>, requested |-> <<>>, passes |-> 0,
                 faults |-> 0, raised |-> None, waited |-> 0,
                 returned |-> <<>>] :
                c \in ApiClients, t \in Totals }
    /\ dl = DlNotCalled
    /\ db = EmptyDb
    /\ pre = EmptyDb
    /\ call = Idle
    /\ clock = 1
    /\ last_request_time = 0
    /\ issued = <<>>
    /\ ccall = [op |-> "idle"]
    /\ notifier = NewNotifier
    /\ ncall = NoCall
    /\ sched = NewScheduler
    /\ statefile = <<>>
    /\ now = 0
    /\ failed_at = <<>>
    /\ delivery = NoDelivery
    /\ hcall = NoCall

\* One pass of the try block (lines 262-289): api_client.search is called
\* with the keyword arguments of SearchKeywords.  A keyword the method does
\* not take raises TypeError before the method runs, so no request is made;
\* otherwise the page at `start` is requested, and the request faults or is
\* answered.  An empty or a short page ends the loop; every exception leads to
\* the except clause.  fa.faults counts the page requests that faulted.
FaSearch ==
    \E fault \in BOOLEAN :
        /\ fa.pc = "loop"
        /\ fa.passes < MaxPasses
        /\ IF ~(SearchKeywords \subseteq fa.api_client.parameters)
           THEN /\ ~fault
                /\ fa' = [fa EXCEPT !.pc = "except", !.raised = "TypeError",
                                    !.passes = @ + 1]
           ELSE IF fault
           THEN fa' = [fa EXCEPT !.pc = "except", !.raised = "ConnectionError",
                                 !.requested = Append(@, fa.start),
                                 !.passes = @ + 1, !.faults = @ + 1]
           ELSE LET papers == Page(fa.total, fa.start, batch_size)
                    all == fa.all_papers \o papers
                IN IF papers = <<>>
                   THEN fa' = [fa EXCEPT !.pc = "returned", !.raised = None,
                                         !.requested = Append(@, fa.start),
                                         !.passes = @ + 1,
                                         !.returned = fa.all_papers]
                   ELSE IF Len(papers) < batch_size
                   THEN fa' = [fa EXCEPT !.pc = "returned", !.raised = None,
                                         !.requested = Append(@, fa.start),
                                         !.passes = @ + 1,
                                         !.all_papers = all,
                                         !.returned = all]
                   ELSE fa' = [fa EXCEPT !.pc = "sleep", !.raised = None,
                                         !.requested = Append(@, fa.start),
                                         !.passes = @ + 1,
                                         !.all_papers = all,
                                         !.start = @ + batch_size]
        /\ UNCHANGED <<dl, storeVars, clientVars, notifyVars, schedVars>>

\* time.sleep(3), then the next pass
FaNextPage ==
    /\ fa.pc = "sleep"
    /\ fa' = [fa EXCEPT !.pc = "loop", !.waited = @ + page_wait]
    /\ UNCHANGED <<dl, storeVars, clientVars, notifyVars, schedVars>>

\* except Exception: time.sleep(10); continue
FaRetry ==
    /\ fa.pc = "except"
    /\ fa' = [fa EXCEPT !.pc = "loop", !.waited = @ + retry_wait]
    /\ UNCHANGED <<dl, storeVars, clientVars, notifyVars, schedVars>>

FaNext ==
    \/ FaSearch
    \/ FaNextPage
    \/ FaRetry

SpecFetchAll == FaInit /\ [][FaNext]_vars

(***************************************************************************)
(* scripts/search_prompt_engineering.py: download_pdf and download_pdfs    *)
(*                                                                         *)
(* download_pdfs submits one download_pdf per paper to a ThreadPoolExecutor*)
(* of max_workers threads and collects future.result() in the order of the *)
(* papers.  A task is "queued" until a thread takes it; download_pdf then  *)
(* is at "started" (before os.path.exists), at "requesting" (before        *)
(* requests.get) or at "writing" (the file is open), and ends as "exists", *)
(* "downloaded" or "failed".                                               *)
(***************************************************************************)

\* the arXiv ids of the papers of a batch
DownloadIds == {"1", "2"}

\* the batches: the same paper may come twice
Batches == SeqsUpTo(DownloadIds, MaxDownloads) \ {<<>>}

\* filepath = os.path.join(output_dir, f"{arxiv_id}.pdf")
FilePath(arxiv_id) == "pdfs/" \o arxiv_id \o ".pdf"

Ended == {"exists", "downloaded", "failed"}

\* the tasks a thread of the pool is running
Running ==
    { k \in DOMAIN dl.status : dl.status[k] \in {"started", "requesting", "writing"} }

\* every result is added to the list
CollectAny(successful_downloads, filepath) ==
    Append(successful_downloads, filepath)

\* lines 211-213: filepath = future.result(); if filepath: append
Collect(successful_downloads, filepath) ==
    IF filepath # None
    THEN Append(successful_downloads, filepath)
    ELSE successful_downloads

\* the call of download_pdfs: every paper is submitted.  The files found in
\* the directory were written to their end.
DlInit ==
    /\ dl \in { [pc |-> "collecting", papers |-> papers, max_workers |-> w,
                 files |-> files, partial |-> {},
                 status |-> [k \in DOMAIN papers |-> "queued"],
                 found |-> [k \in DOMAIN papers |-> "not looked"],
                 result |-> [k \in DOMAIN papers |-> None],
                 collected |-> 0, successful_downloads |-> <<>>,
                 returned |-> <<>>] :
                papers \in Batches, w \in 1..MaxWorkers,
                files \in SUBSET { FilePath(i) : i \in DownloadIds } }
    /\ fa = FaNotCalled
    /\ db = EmptyDb
    /\ pre = EmptyDb
    /\ call = Idle
    /\ clock = 1
    /\ last_request_time = 0
    /\ issued = <<>>
    /\ ccall = [op |-> "idle"]
    /\ notifier = NewNotifier
    /\ ncall = NoCall
    /\ sched = NewScheduler
    /\ statefile = <<>>
    /\ now = 0
    /\ failed_at = <<>>
    /\ delivery = NoDelivery
    /\ hcall = NoCall

\* a free thread takes the next task of the queue
DlStart ==
    \E k \in DOMAIN dl.papers :
        /\ dl.pc = "collecting"
        /\ dl.status[k] = "queued"
        /\ \A j \in 1..(k - 1) : dl.status[j] # "queued"
        /\ Cardinality(Running) < dl.max_workers
        /\ dl' = [dl EXCEPT !.status[k] = "started"]
        /\ UNCHANGED <<fa, storeVars, clientVars, notifyVars, schedVars>>

\* lines 163-170: os.path.exists(filepath); an existing file is returned.
\* found[k] records the file the test met: none, one whose writing has
\* completed, or one that a download opened and has not written to its end.
DlExists ==
    \E k \in DOMAIN dl.papers :
        /\ dl.status[k] = "started"
        /\ IF FilePath(dl.papers[k]) \in dl.files
           THEN dl' = [dl EXCEPT !.status[k] = "exists",
                                 !.result[k] = FilePath(dl.papers[k]),
                                 !.found[k] = IF FilePath(dl.papers[k]) \in dl.partial
                                              THEN "partial" ELSE "complete"]
           ELSE dl' = [dl EXCEPT !.status[k] = "requesting",
                                 !.found[k] = "none"]
        /\ UNCHANGED <<fa, storeVars, clientVars, notifyVars, schedVars>>

\* lines 172-178: requests.get, raise_for_status and open(filepath, 'wb');
\* an exception of any of them is caught and None is returned
DlRequest ==
    \E k \in DOMAIN dl.papers, ok \in BOOLEAN :
        /\ dl.status[k] = "requesting"
        /\ IF ok
           THEN dl' = [dl EXCEPT !.status[k] = "writing",
                                 !.files = @ \cup {FilePath(dl.papers[k])},
                                 !.partial = @ \cup {FilePath(dl.papers[k])}]
           ELSE dl' = [dl EXCEPT !.status[k] = "failed", !.result[k] = None]
        /\ UNCHANGED <<fa, storeVars, clientVars, notifyVars, schedVars>>

\* lines 178-186: the chunks are written and filepath is returned; an
\* exception of iter_content or write is caught and None is returned, and
\* the file that was opened stays, written in part.  The file is whole once
\* a task has written it to its end and no other task has it open.
DlWrite ==
    \E k \in DOMAIN dl.papers, ok \in BOOLEAN :
        /\ dl.status[k] = "writing"
        /\ IF ok
           THEN dl' = [dl EXCEPT !.status[k] = "downloaded",
                                 !.result[k] = FilePath(dl.papers[k]),
                                 !.partial = IF \E j \in DOMAIN dl.papers :
                                                  /\ j # k
                                                  /\ dl.status[j] = "writing"
                                                  /\ dl.papers[j] = dl.papers[k]
                                             THEN @
                                             ELSE @ \ {FilePath(dl.papers[k])}]
           ELSE dl' = [dl EXCEPT !.status[k] = "failed", !.result[k] = None]
        /\ UNCHANGED <<fa, storeVars, clientVars, notifyVars, schedVars>>

\* lines 210-213: the main thread waits for the next future and collects it
DlCollect ==
    /\ dl.pc = "collecting"
    /\ dl.collected < Len(dl.papers)
    /\ dl.status[dl.collected + 1] \in Ended
    /\ dl' = [dl EXCEPT !.collected = @ + 1,
                        !.successful_downloads =
                            Collect(@, dl.result[dl.collected + 1])]
    /\ UNCHANGED <<fa, storeVars, clientVars, notifyVars, schedVars>>

\* the with block ends when every task has ended; return successful_downloads
DlReturn ==
    /\ dl.pc = "collecting"
    /\ dl.collected = Len(dl.papers)
    /\ \A k \in DOMAIN dl.papers : dl.status[k] \in Ended
    /\ dl' = [dl EXCEPT !.pc = "returned", !.returned = dl.successful_downloads]
    /\ UNCHANGED <<fa, storeVars, clientVars, notifyVars, schedVars>>

DlNext ==
    \/ DlStart
    \/ DlExists
    \/ DlRequest
    \/ DlWrite
    \/ DlCollect
    \/ DlReturn

SpecDownload == DlInit /\ [][DlNext]_vars

(***************************************************************************)
(* Properties of the store.                                                *)
(***************************************************************************)
Range(f) == { f[k] : k \in DOMAIN f }

Stored(d, full_id) == \E r \in d.papers : r.id = full_id

\* the column values store_papers is given for a valid record
Given(paper) ==
    [title |-> paper.title,
     summary |-> Get(paper, "summary", ""),
     published_date |-> Get(paper, "published_date", ""),
     pdf_url |-> Get(paper, "pdf_url", ""),
     category |-> Get(paper, "category", None)]

Columns(r) ==
    [title |-> r.title, summary |-> r.summary, published_date |-> r.published_date,
     pdf_url |-> r.pdf_url, category |-> r.category]

\* record k is the last of the batch written under its short identifier
LastOfKey(papers, k) ==
    \A j \in (k + 1)..Len(papers) : ArxivId(papers[j].id) # ArxivId(papers[k].id)

StoreReturned == call.op = "store_papers"

StoreCommitted == StoreReturned /\ call.raised = None

\* the call only stores papers again whose full identifier is already stored
ReStore ==
    /\ StoreCommitted
    /\ \A k \in DOMAIN call.papers : Stored(pre, call.papers[k].id)

\* C1: the papers table never holds two rows with one full identifier; a
\* store_papers call that stores already stored full identifiers again leaves
\* the number of rows unchanged, and each such row carries the title, summary,
\* published_date, pdf_url and category of the last record given for it.
C1_IdempotentUpsert ==
    /\ \A r1, r2 \in db.papers : r1.id = r2.id => r1 = r2
    /\ ReStore =>
         /\ Cardinality(db.papers) = Cardinality(pre.papers)
         /\ \A k \in DOMAIN call.papers :
               LastOfKey(call.papers, k) =>
                 \E r \in db.papers : /\ r.id = call.papers[k].id
                                      /\ Columns(r) = Given(call.papers[k])

\* a stored paper was stored again with other column values
C1_Witness ==
    /\ ReStore
    /\ \E k \in DOMAIN call.papers : \E r \in pre.papers :
          /\ r.id = call.papers[k].id
          /\ LastOfKey(call.papers, k)
          /\ Columns(r) # Given(call.papers[k])

\* C2: store_papers is atomic.  A call that raises leaves papers, authors and
\* paper_authors (and the author id sequence) as they were before the call; a
\* call that does not raise has committed every record: the row of each record
\* (the last one given for its key) is in the table with the record's values
\* and, if the record names authors, exactly those authors are joined to it.
C2_AtomicBatch ==
    StoreReturned =>
      /\ call.raised # None => db = pre
      /\ call.raised = None =>
           \A k \in DOMAIN call.papers :
             LastOfKey(call.papers, k) =>
               /\ \E r \in db.papers : /\ r.id = call.papers[k].id
                                        /\ Columns(r) = Given(call.papers[k])
               /\ HasAuthors(call.papers[k]) =>
                    AuthorSetOf(db, call.papers[k].id) = Range(call.papers[k].authors)

\* the second record faulted at an author after the first record had been
\* written and had changed the database
C2_Witness ==
    /\ StoreReturned
    /\ call.raised = "Exception"
    /\ Len(call.papers) = 2
    /\ StoreOne(pre, call.papers[1], call.failing).raised = None
    /\ StoreOne(pre, call.papers[1], call.failing).db # pre
    /\ pre.papers # {}

\* the injected author fault strikes record j
FaultAt(papers, j, failing) ==
    /\ Valid(papers[j])
    /\ HasAuthors(papers[j])
    /\ failing \in Range(papers[j].authors)

\* C3: when a record of the batch, at whatever position, lacks 'id' or 'title'
\* (and no other fault strikes a record before it), store_papers raises
\* ValueError and the store is unchanged.
C3_MalformedRejected ==
    StoreReturned =>
      \A k \in DOMAIN call.papers :
        (/\ ~Valid(call.papers[k])
         /\ \A j \in 1..(k - 1) : ~FaultAt(call.papers, j, call.failing))
        => /\ call.raised = "ValueError"
           /\ db = pre

\* a malformed record in second place, after a new valid record, with papers
\* of earlier calls in the store
C3_Witness ==
    /\ StoreReturned
    /\ Len(call.papers) = 2
    /\ Valid(call.papers[1])
    /\ ~Stored(pre, call.papers[1].id)
    /\ ~Valid(call.papers[2])
    /\ call.raised = "ValueError"
    /\ pre.papers # {}
    /\ db.papers = pre.papers

\* C4: get_paper_by_id, given the short identifier or the full identifier of
\* a stored paper, returns that paper.
C4_LookupBothForms ==
    call.op = "get_paper_by_id" =>
      \A r \in db.papers :
        (call.paper_id = r.id \/ call.paper_id = ArxivId(r.id))
        => call.paper = <<Hydrate(db, r)>>

\* the paper row that delete_paper looks for
Found(d, paper_id) ==
    \E r \in d.papers : r.arxiv_id = paper_id \/ r.id = AbsPrefix \o paper_id

\* C5: delete_paper returns TRUE exactly when a paper row was found for the
\* identifier, and then the row and its join rows are gone.
C5_DeleteReturnsFound ==
    call.op = "delete_paper" =>
      /\ call.returned <=> Found(pre, call.paper_id)
      /\ Found(pre, call.paper_id) =>
           /\ Cardinality(db.papers) = Cardinality(pre.papers) - 1
           /\ \A r \in pre.papers \ db.papers :
                 \A pa \in db.paper_authors : pa.paper_id # r.id

\* the paper identifiers an author is joined to
PapersOf(d, a) ==
    { pa.paper_id : pa \in { x \in d.paper_authors : x.author_id = a.id } }

C7_AuthorsRebuilt ==
    StoreCommitted =>
      \A k \in DOMAIN call.papers :
        (Stored(pre, call.papers[k].id) /\ LastOfKey(call.papers, k))
        => AuthorSetOf(db, call.papers[k].id)
             = Range(Get(call.papers[k], "authors", <<>>))

\* C8: filter_new_papers returns the subsequence of its input whose short
\* identifier is the arxiv_id of no stored row, in input order, with one
\* store lookup per input paper and the store unchanged.
C8_FilterNewPapers ==
    call.op = "filter_new_papers" =>
      /\ call.new_papers =
           SelectSeq(call.papers,
                     LAMBDA p : ArxivId(p.id) \notin { r.arxiv_id : r \in db.papers })
      /\ call.lookups = Len(call.papers)
      /\ db = pre

\* a fetch of two papers, the first stored under its full identifier and
\* dropped, the second absent from the store and kept
C8_Witness ==
    /\ call.op = "filter_new_papers"
    /\ Len(call.papers) = 2
    /\ Stored(db, call.papers[1].id)
    /\ Len(call.papers[1].id) > 1
    /\ call.new_papers = <<call.papers[2]>>

(***************************************************************************)
(* Properties of the client.                                               *)
(***************************************************************************)

\* C9: the requests of two consecutive calls of one client, whether they
\* succeed or fail, are issued at least `delay` seconds apart, and the first
\* call of a new client does not sleep.
C9_RateLimit ==
    /\ Len(issued) = 2 => issued[2] - issued[1] >= delay
    /\ (ccall.op # "idle" /\ ccall.first) => ~ccall.slept

\* a failed call followed less than `delay` seconds later by a call that slept
C9_Witness ==
    /\ Len(issued) = 2
    /\ ccall.op # "idle"
    /\ ccall.slept
    /\ issued[2] - issued[1] < delay + delay


\* C10: search and get_paper_by_id raise a connection fault or a timeout of
\* the transport to their caller as that same fault.
C10_TransportFaultPropagates ==
    (ccall.op # "idle" /\ ccall.reply.kind \in {"ConnectionError", "Timeout"})
    => ccall.raised = ccall.reply.kind

\* the call was a search answered with status 200
SearchAnswered ==
    /\ ccall.op = "search"
    /\ ccall.reply.kind = "response"
    /\ ccall.reply.status_code = 200

\* the body is a feed in one of the two shapes: a JSON object with a 'feed'
\* object, or an XML document whose root is an Atom feed
RecognizedShape(content) ==
    \/ /\ "data" \in DOMAIN content
       /\ "dict" \in DOMAIN content.data
       /\ "feed" \in DOMAIN content.data.dict
    \/ /\ "root" \in DOMAIN content
       /\ content.root.tag = "atom:feed"

\* C11: a search answered with status 200 and a body that is a feed in
\* neither shape raises the parse error; it does not return a result list.
C11_UnrecognizedBodyRaises ==
    (SearchAnswered /\ ~RecognizedShape(ccall.reply.content))
    => /\ ccall.raised = "Exception"
       /\ "Failed to parse response" \in Range(ccall.message)

\* the canonical record of a paper entry: absent fields are "" or <<>>, and
\* pdf_url is the first link that names a pdf
CanonicalRecord(e) ==
    [id |-> Get(e, "id", ""),
     title |-> Get(e, "title", ""),
     summary |-> Get(e, "summary", ""),
     authors |-> Get(e, "authors", <<>>),
     published_date |-> Get(e, "published", ""),
     pdf_url |-> NextOr(SelectSeq(Get(e, "links", <<>>),
                                  LAMBDA h : Contains(h, "pdf")), "")]

\* C12: a search answered with a list of paper entries, encoded as an Atom
\* feed or as JSON, returns without a fault the canonical record of each
\* entry, the same for both encodings, field by field: author names
\* included, and "" or <<>> for a field the entry lacks.
C12_SameRecordBothShapes ==
    SearchAnswered =>
      \A es \in EntryLists :
        ccall.reply.content \in {XmlFeed(es), JsonFeed(es)}
        => /\ ccall.raised = None
           /\ ccall.results = [k \in DOMAIN es |-> CanonicalRecord(es[k])]

(***************************************************************************)
(* Properties of the batch driver.                                         *)
(***************************************************************************)

\* C13: fetch_all_papers, given the repository's ArxivApiClient, requests in
\* pass k of its loop the page at offset (k - 1) * batch_size, and once it has
\* returned, it returns the records of all pages in order.
C13_PagesRequestedInOrder ==
    (fa.pc # "not called" /\ fa.api_client.class = "ArxivApiClient") =>
      /\ fa.requested = [k \in 1..fa.passes |-> (k - 1) * batch_size]
      /\ fa.pc = "returned" => fa.returned = [k \in 1..fa.total |-> k]

(***************************************************************************)
(* Properties of the notifier.                                             *)
(***************************************************************************)

\* the truncation law for the limit the notifier is configured with
TruncationLaw ==
    /\ ncall.op = "truncate_message" =>
         IF Len(ncall.message) > notifier.max_message_length
         THEN /\ Len(ncall.text) <= notifier.max_message_length
              /\ EndsWith(ncall.text, TruncationMarker)
         ELSE ncall.text = ncall.message
    /\ ncall.op = "format_papers_message" =>
         Len(ncall.text) <= notifier.max_message_length

\* C14 as stated: for every max_message_length, truncate_message returns a
\* longer message cut to at most that length and ending with the marker, and
\* a message within the length unchanged; the text of format_papers_message
\* is never longer than max_message_length.
C14_TruncationLawAnyLimit == TruncationLaw

\* C14 as amended: the same for every max_message_length of at least 25, the
\* room truncate_message leaves for the marker.
C14_TruncationLaw ==
    notifier.max_message_length >= 25 => TruncationLaw

\* a message one character over a limit of at least 25 was cut
C14_Witness ==
    /\ ncall.op = "truncate_message"
    /\ notifier.max_message_length >= 25
    /\ Len(ncall.message) = notifier.max_message_length + 1
    /\ ncall.text # ncall.message

\* a call that delivers: post_papers_to_slack or one of the two methods it
\* calls
Delivery ==
    ncall.op \in {"post_papers_to_slack", "post_message_to_slack",
                  "post_blocks_to_slack"}

C16_SuccessIsAny2xx ==
    (Delivery /\ ncall.posts # <<>> /\ ncall.reply.kind = "response") =>
      (ncall.returned <=> ncall.reply.status_code \in 200..299)

(***************************************************************************)
(* Properties of the scheduler.                                            *)
(***************************************************************************)

\* the threshold of a recurrence class, in days
Threshold(schedule_type) ==
    CASE schedule_type = "daily" -> 1
      [] schedule_type = "weekly" -> 7
      [] schedule_type = "monthly" -> 30
      [] OTHER -> 7

\* C17: is_time_to_run returns TRUE when no last run time is recorded, and
\* otherwise TRUE exactly when the days passed since last_run_time are at
\* least the threshold of the recurrence class.
C17_IsTimeToRun ==
    hcall.op = "is_time_to_run" =>
      IF sched.last_run_time = <<>>
      THEN hcall.returned
      ELSE hcall.returned <=>
             (now - sched.last_run_time[1] >= Threshold(sched.schedule_type))

\* a monthly schedule asked exactly 30 days after the last run
C17_Witness ==
    /\ hcall.op = "is_time_to_run"
    /\ sched.schedule_type = "monthly"
    /\ sched.last_run_time # <<>>
    /\ now - sched.last_run_time[1] = 30
    /\ hcall.returned

HarvestDone == hcall.op = "run_harvest"

\* the fetch step of the cycle raised
FetchFaulted ==
    HarvestDone /\ hcall.answers[Len(hcall.answers)].kind = "fault"

\* the calls the cycle made after its searches, in order
CallsAfterFetch ==
    SelectSeq(hcall.events, LAMBDA e : e.ev \notin {"set_last_run_time", "search"})

\* the state file holds the state of the scheduler as it is after the cycle
StateSaved == statefile = <<StateOf(sched)>>

\* C18: a cycle with a non-empty list of new papers, in which the store does
\* not fault, calls store_papers once with that list, then
\* send_notifications once with that list, then (if a state file is set)
\* save_state once, in this order, and returns TRUE.
C18_StoreNotifySaveInOrder ==
    (HarvestDone /\ hcall.new_papers # <<>> /\ hcall.failing = None) =>
      /\ Len(CallsAfterFetch) = IF sched.state_file # None THEN 3 ELSE 2
      /\ CallsAfterFetch[1].ev = "store_papers"
      /\ CallsAfterFetch[1].papers = hcall.new_papers
      /\ CallsAfterFetch[2].ev = "send_notifications"
      /\ CallsAfterFetch[2].papers = hcall.new_papers
      /\ sched.state_file # None =>
           (CallsAfterFetch[3].ev = "save_state" /\ StateSaved)
      /\ hcall.returned

\* two new papers were stored, posted to the sink and the state was saved
C18_Witness ==
    /\ HarvestDone
    /\ Len(hcall.new_papers) = 2
    /\ Len(CallsAfterFetch) = 3
    /\ CallsAfterFetch[2].ev = "send_notifications"
    /\ CallsAfterFetch[2].posts # <<>>
    /\ db # pre
    /\ hcall.returned

\* C19: a cycle whose fetch succeeds and finds no new paper calls neither
\* store_papers nor send_notifications and leaves the store unchanged; it
\* saves the state if a state file is set, and returns TRUE.
C19_NothingNew ==
    (HarvestDone /\ ~FetchFaulted /\ hcall.new_papers = <<>>) =>
      /\ \A k \in DOMAIN hcall.events :
            hcall.events[k].ev \notin {"store_papers", "send_notifications"}
      /\ db = pre
      /\ sched.state_file # None =>
           (/\ CallsAfterFetch = <<[ev |-> "save_state", state_file |-> sched.state_file]>>
            /\ StateSaved)
      /\ sched.state_file = None => CallsAfterFetch = <<>>
      /\ hcall.returned

\* the search returned papers, all of them in the store already, and the
\* state was saved
C19_Witness ==
    /\ HarvestDone
    /\ ~FetchFaulted
    /\ \E k \in DOMAIN hcall.answers : hcall.answers[k].papers # <<>>
    /\ hcall.new_papers = <<>>
    /\ pre.papers # {}
    /\ sched.state_file # None
    /\ StateSaved

\* the cycle called send_notifications and the delivery failed
NotifyFailed ==
    /\ HarvestDone
    /\ \E k \in DOMAIN hcall.events :
          /\ hcall.events[k].ev = "send_notifications"
          /\ ~hcall.events[k].delivered

\* C20: when the delivery of a cycle fails (the sink does not accept it, or
\* no webhook is set), the store stays as store_papers committed it, with
\* every new paper of the cycle in it, the state is saved if a state file is
\* set, and run_harvest returns TRUE.
C20_NotifyFailureKeepsPapers ==
    NotifyFailed =>
      /\ db = store_papers(pre, hcall.new_papers, None).db
      /\ \A k \in DOMAIN hcall.new_papers :
            LastOfKey(hcall.new_papers, k) => Stored(db, hcall.new_papers[k].id)
      /\ sched.state_file # None =>
           (/\ CallsAfterFetch[Len(CallsAfterFetch)].ev = "save_state"
            /\ StateSaved)
      /\ hcall.returned

\* the sink answered the post of a new paper with status 500
C20_Witness ==
    /\ NotifyFailed
    /\ hcall.reply.kind = "response"
    /\ hcall.reply.status_code = 500
    /\ db.papers # pre.papers
    /\ sched.state_file # None
    /\ StateSaved

\* the searches the cycle made, in order
Searches == SelectSeq(hcall.events, LAMBDA e : e.ev = "search")

\* the categories the cycle was to search, in order
Planned == IF sched.categories # <<>> THEN sched.categories ELSE <<None>>

\* C21: when a search of the fetch step faults, run_harvest makes no search
\* again and none after it, raises nothing and returns FALSE; it calls
\* neither store_papers nor send_notifications nor save_state, and the store
\* and the state file are as before the cycle.
C21_FetchFaultReturnsFalse ==
    FetchFaulted =>
      /\ hcall.raised = None
      /\ ~hcall.returned
      /\ Len(Searches) = Len(hcall.answers)
      /\ \A k \in DOMAIN Searches : Searches[k].category = Planned[k]
      /\ CallsAfterFetch = <<>>
      /\ db = pre
      /\ statefile = hcall.statefile_before

\* the second of two searches faulted after the first had returned a paper
\* that is not in the store, with a state file set
C21_Witness ==
    /\ FetchFaulted
    /\ Len(hcall.answers) = 2
    /\ hcall.answers[1].papers # <<>>
    /\ ~Stored(db, hcall.answers[1].papers[1].id)
    /\ sched.state_file # None
    /\ ~hcall.returned

\* the store upsert of the cycle raised
StoreFaulted ==
    /\ HarvestDone
    /\ hcall.new_papers # <<>>
    /\ store_papers(pre, hcall.new_papers, hcall.failing).raised # None

\* C22 (as claimed): a fault raised by the store upsert leaves run_harvest
\* as an exception.
C22_StoreFaultPropagates == StoreFaulted => hcall.raised # None

\* C22 (amended): a fault raised by the store upsert does not leave
\* run_harvest: run_harvest returns FALSE, and the cycle ends after the
\* upsert, with no notification and no saved state.
C22_StoreFaultAbsorbed ==
    StoreFaulted =>
      /\ hcall.raised = None
      /\ ~hcall.returned
      /\ Len(CallsAfterFetch) = 1
      /\ CallsAfterFetch[1].ev = "store_papers"
      /\ statefile = hcall.statefile_before

\* the upsert of two new papers raised in a cycle with a webhook and a state
\* file set
C22_Witness ==
    /\ StoreFaulted
    /\ Len(hcall.new_papers) = 2
    /\ ~NoWebhook(sched.slack_webhook)
    /\ sched.state_file # None
    /\ ~hcall.returned

\* the run-state fields of a scheduler
RunState(s) ==
    <<s.query, s.categories, s.max_results, s.slack_webhook, s.schedule_type,
      s.last_run_time>>

\* C23: a fresh scheduler that loads the file a save_state has written has
\* the query, categories, max_results, webhook, schedule_type and
\* last_run_time of the scheduler that saved (a last_run_time never set
\* included); load_state of a file that does not exist leaves all of these
\* as they were.
C23_StateRoundTrip ==
    /\ (hcall.op = "load_state on a fresh scheduler" /\ hcall.written) =>
          RunState(hcall.loaded) = RunState(hcall.saved)
    /\ (hcall.op = "load_state" /\ ~hcall.exists) =>
          RunState(sched) = RunState(hcall.before)

\* a state with two categories, a webhook and a last run on day 10 was saved
\* and loaded by a fresh scheduler
C23_Witness ==
    /\ hcall.op = "load_state on a fresh scheduler"
    /\ hcall.written
    /\ hcall.saved.last_run_time = <<10>>
    /\ hcall.saved.schedule_type = "monthly"
    /\ Len(hcall.saved.categories) = 2
    /\ hcall.saved.slack_webhook # None
    /\ hcall.loaded # NewScheduler

\* the papers of the answers, one list after the other
RECURSIVE Concatenated(_)
Concatenated(answers) ==
    IF answers = <<>>
    THEN <<>>
    ELSE answers[1].papers \o Concatenated(Tail(answers))

\* C24: a fetch_papers in which no search faults makes one search for each
\* configured category, in the order of the list, and returns the results of
\* these searches one after the other in that order; with no category it
\* makes one search without category and returns its result.
C24_OneSearchPerCategory ==
    (hcall.op = "fetch_papers" /\ hcall.raised = None) =>
      /\ Len(hcall.events) = Len(Planned)
      /\ \A k \in DOMAIN hcall.events :
            hcall.events[k] = [ev |-> "search", category |-> Planned[k]]
      /\ Len(hcall.answers) = Len(Planned)
      /\ hcall.papers = Concatenated(hcall.answers)

\* two categories were searched and each search returned papers
C24_Witness ==
    /\ hcall.op = "fetch_papers"
    /\ hcall.raised = None
    /\ Len(sched.categories) = 2
    /\ Len(hcall.answers[1].papers) = 2
    /\ Len(hcall.answers[2].papers) = 1
    /\ Len(hcall.papers) = 3

\* the paths of the tasks from k on that ended as "exists" or "downloaded"
RECURSIVE PathsOfSucceeded(_)
PathsOfSucceeded(k) ==
    IF k > Len(dl.papers)
    THEN <<>>
    ELSE IF dl.status[k] \in {"exists", "downloaded"}
    THEN <<FilePath(dl.papers[k])>> \o PathsOfSucceeded(k + 1)
    ELSE PathsOfSucceeded(k + 1)

\* C25: when download_pdfs returns, every download of the batch has run to
\* its end, whatever failed, and the list returned holds, in the order of
\* the papers, exactly the paths of the papers whose download succeeded or
\* whose file existed; a download that failed has no entry in it.
C25_FailedDownloadsAbsent ==
    dl.pc = "returned" =>
      /\ \A k \in DOMAIN dl.papers : dl.status[k] \in Ended
      /\ dl.returned = PathsOfSucceeded(1)
      /\ Len(dl.returned) =
           Cardinality({ k \in DOMAIN dl.papers : dl.status[k] # "failed" })

\* two threads: of three papers the first failed, the second was downloaded
\* and the file of the third existed
C25_Witness ==
    /\ dl.pc = "returned"
    /\ dl.papers = <<"1", "2", "2">>
    /\ dl.max_workers = 2
    /\ dl.status[1] = "failed"
    /\ dl.status[2] = "downloaded"
    /\ dl.status[3] = "exists"
    /\ dl.returned = <<FilePath("2"), FilePath("2")>>

\* C26: an invocation of main that restores its state from the state file
\* of an earlier invocation whose cycle failed does not find the harvest due
\* while less than the interval of its schedule has passed since that cycle
\* started.
C26_FailedCycleNotDueAgain ==
    ( /\ hcall.op = "main"
      /\ hcall.failed_before # <<>>
      /\ hcall.args.state_file # None
      /\ hcall.failed_before[1].state_file = hcall.args.state_file
      /\ now - hcall.failed_before[1].started
           < Threshold(hcall.applied.schedule_type) )
    => ~is_time_to_run(hcall.applied, now)

\* the cycle of run_harvest began with set_last_run_time(now), once
SetsLastRunTimeFirst ==
    /\ sched.last_run_time = <<now>>
    /\ hcall.events[1] = [ev |-> "set_last_run_time", run_time |-> now]
    /\ \A k \in 2..Len(hcall.events) : hcall.events[k].ev # "set_last_run_time"

\* the last run time of the scheduler does not go back in this step
LastRunTimeAdvances ==
    sched.last_run_time # <<>> =>
      /\ sched'.last_run_time # <<>>
      /\ sched'.last_run_time[1] >= sched.last_run_time[1]

\* C27: every run_harvest sets last_run_time to the current time before its
\* first search, whether it then returns TRUE or FALSE, and from one
\* run_harvest to the next last_run_time never decreases.
C27_LastRunTimeSetFirst ==
    /\ [](HarvestDone => SetsLastRunTimeFirst)
    /\ [][LastRunTimeAdvances]_vars

\* a second cycle, a week after the first, whose fetch faulted
C27_Witness ==
    /\ FetchFaulted
    /\ ~hcall.returned
    /\ now = 7
    /\ sched.last_run_time = <<7>>

\* the cycles that began in the invocation
CyclesBegun ==
    SelectSeq(hcall.events, LAMBDA e : e.ev = "set_last_run_time")

\* C28: an invocation of main runs one harvest cycle if --force-run is given
\* or is_time_to_run() is true of the scheduler after apply_arguments (the
\* state file loaded), and otherwise none: then it makes no search, no store
\* write, no notification and no save of the state.  It never runs more than
\* one.
C28_AtMostOneCycle ==
    hcall.op = "main" =>
      /\ Len(hcall.cycles) <= 1
      /\ Len(CyclesBegun) = Len(hcall.cycles)
      /\ Len(hcall.cycles) = 1 <=>
           (hcall.args.force_run \/ is_time_to_run(hcall.applied, now))
      /\ hcall.cycles = <<>> =>
           (/\ hcall.events = <<>>
            /\ db = pre
            /\ statefile = hcall.statefile_before)

\* an invocation that loaded a last run of the same day ran no cycle, and
\* the next day an invocation with --force-run alone ran one
C28_Witness ==
    /\ hcall.op = "main"
    /\ hcall.args.force_run
    /\ ~is_time_to_run(hcall.applied, now)
    /\ hcall.applied.last_run_time = <<0>>
    /\ now = 1
    /\ Len(hcall.cycles) = 1

(***************************************************************************)
(* The point from which the throttle measures.                             *)
(***************************************************************************)

\* the call was made on a client that had completed a call before
LaterCall ==
    /\ ccall.op # "idle"
    /\ ccall.since_completed # <<>>

\* C29 as stated: a call entered less than `delay` seconds after the call
\* before it completed blocks for exactly `delay` seconds before its request
\* is issued, also when the call before it took time to complete.
C29_ThrottleFromCompletion ==
    (LaterCall /\ ccall.since_completed[1] < delay)
    => (ccall.slept /\ ccall.sleep_time = delay)

\* C29: the throttle measures from the moment the request before was issued:
\* a call entered less than `delay` seconds after that moment blocks for
\* exactly `delay` seconds before its request is issued, also when the request
\* before took time to complete, and a call entered `delay` seconds or more
\* after that moment does not block, however lately the request completed.
C29_ThrottleFromIssue ==
    LaterCall =>
        /\ ccall.elapsed < delay => (ccall.slept /\ ccall.sleep_time = delay)
        /\ ccall.elapsed >= delay => ~ccall.slept

\* a call entered less than `delay` seconds after a request that took time to
\* complete was issued, which blocked
C29_Witness ==
    /\ LaterCall
    /\ ccall.elapsed > ccall.since_completed[1]
    /\ ccall.elapsed < delay
    /\ ccall.slept

(***************************************************************************)
(* Retries of the batch driver.                                            *)
(***************************************************************************)

\* the number of pages fetch_all_papers has to be answered before it returns:
\* the full pages, and the short or empty page after them
PagesOf(total) == total \div batch_size + 1

\* the except clause was entered from a page request that faulted, and the
\* offset to request next is the offset of that request
RetriesFaultedRequest ==
    (fa.pc = "except" /\ fa.raised = "ConnectionError") =>
        /\ fa.requested # <<>>
        /\ fa.requested[Len(fa.requested)] = fa.start

\* the backoff: the loop is entered again with the offset and the pages kept
RetryKeepsPages ==
    (fa.pc = "except" /\ fa'.pc = "loop") =>
        /\ fa'.start = fa.start
        /\ fa'.all_papers = fa.all_papers
        /\ fa'.waited = fa.waited + retry_wait

\* once as many passes as there are pages were made beyond those whose
\* request faulted, the function has returned
ReturnsOnceAnswered ==
    (fa.pc # "not called" /\ fa.passes - fa.faults >= PagesOf(fa.total))
    => fa.pc = "returned"

\* the result holds the records of every page once, in the order of offsets
ReturnsEveryPageOnce ==
    fa.pc = "returned" => fa.returned = [k \in 1..fa.total |-> k]

\* C30: fetch_all_papers retries a page request that faulted after the wait
\* of retry_wait seconds at the same offset with the pages accumulated so far
\* kept; when every request beyond the faulted ones is answered, it returns,
\* and its result holds every page exactly once in the order of offsets.
C30_RetryThenReturn ==
    /\ [](RetriesFaultedRequest /\ ReturnsOnceAnswered /\ ReturnsEveryPageOnce)
    /\ [][RetryKeepsPages]_vars

\* the same for an api_client whose search takes `start`
PagingClientRetriesThenReturns ==
    /\ []((fa.pc # "not called" /\ fa.api_client.class = "PagingClient") =>
            (RetriesFaultedRequest /\ ReturnsOnceAnswered /\ ReturnsEveryPageOnce))
    /\ [][RetryKeepsPages]_vars

\* a call that returned two pages after a request that faulted
PagingClientRetried ==
    /\ fa.pc = "returned"
    /\ fa.faults > 0
    /\ fa.total > batch_size

(***************************************************************************)
(* Further properties of the store.                                        *)
(***************************************************************************)

\* C31: after delete_paper returns, whether or not it found the identifier,
\* every row of authors has at least one row of paper_authors, also an author
\* whose rows were cleared when its paper was stored again with other authors.
C31_NoOrphanAfterDelete ==
    call.op = "delete_paper" => OrphanedAuthors(db.authors, db.paper_authors) = {}

\* the rows of paper_authors whose author_id is the id of no row of authors
DanglingJoins(d) ==
    { pa \in d.paper_authors : pa.author_id \notin { a.id : a \in d.authors } }

\* C32: whatever store_papers and delete_paper calls were made, raising ones
\* included, the author_id of every row of paper_authors is the id of a row
\* of authors, and once delete_paper has removed a paper no row of
\* paper_authors carries that paper's identifier.
C32_JoinRowsRefer ==
    /\ DanglingJoins(db) = {}
    /\ call.op = "delete_paper" =>
          \A r \in pre.papers \ db.papers :
              \A pa \in db.paper_authors : pa.paper_id # r.id

\* a delete that removed a paper with join rows and pruned one of its
\* authors, while join rows of another author remain
C32_Witness ==
    /\ call.op = "delete_paper"
    /\ \E r \in pre.papers \ db.papers :
          \E pa \in pre.paper_authors : pa.paper_id = r.id
    /\ pre.authors \ db.authors # {}
    /\ db.paper_authors # {}

(***************************************************************************)
(* Further properties of the downloads.                                    *)
(***************************************************************************)

\* the tasks of download_pdfs that have the file at this path open
WritersOf(path) ==
    { k \in DOMAIN dl.papers :
        dl.status[k] = "writing" /\ FilePath(dl.papers[k]) = path }

\* C33: whatever the batch and the number of threads, at no time do two
\* tasks of download_pdfs write the same destination file, also when two
\* papers of the batch have the same short identifier.
C33_OneWriterPerFile ==
    dl.pc # "not called" =>
        \A i \in DownloadIds : Cardinality(WritersOf(FilePath(i))) <= 1

\* C39: a file that download_pdf skips as already downloaded and reports as
\* a success was written to its end by a download that completed; a download
\* that failed while writing leaves no file that a later download_pdf of the
\* same paper skips.
C39_SkippedFileIsComplete ==
    dl.pc # "not called" =>
        \A k \in DOMAIN dl.papers :
            dl.status[k] = "exists" => dl.found[k] = "complete"

(***************************************************************************)
(* Properties of get_papers.                                               *)
(***************************************************************************)

\* the rows of the listing from position offset + 1 on, limit[1] of them at
\* most, or all of them when limit is None
SliceOf(listing, limit, offset) ==
    LET last == IF limit = <<>> \/ offset + limit[1] > Len(listing)
                THEN Len(listing) ELSE offset + limit[1]
    IN SubSeq(listing, offset + 1, last)

\* C34: get_papers with limit L and offset K returns rows K+1 .. K+L of the
\* listing in the order asked for, each with its authors, for every
\* combination of limit and offset: all rows after the first K when there is
\* no limit, and all rows when there is neither limit nor offset.
C34_PageIsSlice ==
    call.op = "get_papers" =>
        /\ call.raised = None
        /\ call.page = [k \in DOMAIN SliceOf(call.listing, call.limit, call.offset) |->
                           Hydrate(db, SliceOf(call.listing, call.limit, call.offset)[k])]

\* the same for the calls that give a limit or no offset
PageIsSliceWithLimit ==
    (call.op = "get_papers" /\ ~(call.limit = <<>> /\ call.offset > 0)) =>
        /\ call.raised = None
        /\ call.page = [k \in DOMAIN SliceOf(call.listing, call.limit, call.offset) |->
                           Hydrate(db, SliceOf(call.listing, call.limit, call.offset)[k])]

\* the second page of one row of a listing of two papers with authors
SecondPageReturned ==
    /\ call.op = "get_papers"
    /\ call.limit = <<1>>
    /\ call.offset = 1
    /\ Len(call.listing) = 2
    /\ Len(call.page) = 1
    /\ call.page[1].id = call.listing[2].id
    /\ call.page[1].authors # <<>>

(***************************************************************************)
(* The frame of store_papers.                                              *)
(***************************************************************************)

\* the full identifiers of the records of a batch that carry one
BatchIds(papers) ==
    { papers[k].id : k \in { j \in DOMAIN papers : "id" \in DOMAIN papers[j] } }

\* C35: store_papers leaves every stored paper whose full identifier is not
\* one of the batch as it was, and every full identifier stored before the
\* call is stored after it, also when a full identifier of the batch has the
\* short identifier of a paper stored under another full identifier.
C35_OtherPapersKept ==
    call.op = "store_papers" =>
        /\ \A r \in pre.papers : r.id \notin BatchIds(call.papers) => r \in db.papers
        /\ { r.id : r \in pre.papers } \subseteq { r.id : r \in db.papers }

\* the same for stored papers whose short identifier is not one of the batch
OtherShortIdsKept ==
    call.op = "store_papers" =>
        \A r \in pre.papers :
            r.arxiv_id \notin { ArxivId(i) : i \in BatchIds(call.papers) }
            => r \in db.papers

(***************************************************************************)
(* The papers a cycle passes to notification.                              *)
(***************************************************************************)

\* the list of papers the cycle called send_notifications with (<<>> when it
\* did not call it)
PassedToNotification ==
    LET calls == SelectSeq(hcall.events, LAMBDA e : e.ev = "send_notifications")
    IN IF calls = <<>> THEN <<>> ELSE calls[1].papers

\* C36: the list of papers a cycle passes to send_notifications holds no
\* paper identifier twice, also when the searches of two categories both
\* return the paper.
C36_NotifiedOncePerCycle ==
    HarvestDone =>
        \A i, j \in DOMAIN PassedToNotification :
            i # j => PassedToNotification[i].id # PassedToNotification[j].id

\* the papers the searches of the cycle returned
Fetched ==
    UNION { Range(hcall.answers[k].papers) :
            k \in { j \in DOMAIN hcall.answers : hcall.answers[j].kind = "papers" } }

\* C37: over the cycles run on one store, from which nothing is deleted, a
\* paper that a cycle passed to send_notifications is passed to it by no
\* later cycle, and every paper passed to send_notifications is committed to
\* the store: a row carries its short identifier, and its full identifier
\* unless a later record of the same list was written over it.
C37_NotifiedOnceAcrossCycles ==
    HarvestDone =>
        \A k \in DOMAIN PassedToNotification :
            /\ ArxivId(PassedToNotification[k].id) \notin delivery.passed
            /\ \E r \in db.papers : r.arxiv_id = ArxivId(PassedToNotification[k].id)
            /\ LastOfKey(PassedToNotification, k)
                 => Stored(db, PassedToNotification[k].id)

\* a later cycle whose searches returned a paper passed to notification
\* before together with another paper, and which passed only the other on
C37_Witness ==
    /\ HarvestDone
    /\ delivery.passed # {}
    /\ \E p \in Fetched : ArxivId(p.id) \in delivery.passed
    /\ Len(PassedToNotification) = 1
    /\ db # pre

\* C38 as stated, for a later cycle in which everything it asks for is
\* given: when a cycle persisted a paper and its delivery failed, a later
\* cycle that completes and whose searches return the paper again attempts
\* the delivery of that paper.
C38_UndeliveredRetried ==
    (HarvestDone /\ ~FetchFaulted /\ hcall.returned) =>
        \A p \in Fetched :
            ArxivId(p.id) \in delivery.undelivered
            => \E k \in DOMAIN PassedToNotification :
                   ArxivId(PassedToNotification[k].id) = ArxivId(p.id)

\* C38: every new paper a cycle persists is passed to send_notifications in
\* that cycle, and when its delivery failed there no later cycle passes it
\* to send_notifications again, whatever the sink does later.
C38_DeliveryAttemptedOnce ==
    HarvestDone =>
        /\ (db # pre /\ hcall.new_papers # <<>>)
             => PassedToNotification = hcall.new_papers
        /\ \A k \in DOMAIN PassedToNotification :
               ArxivId(PassedToNotification[k].id) \notin delivery.undelivered

\* a later cycle whose searches returned a paper that was persisted and not
\* delivered, and whose own delivery of another paper the sink accepted
C38_Witness ==
    /\ HarvestDone
    /\ \E p \in Fetched : ArxivId(p.id) \in delivery.undelivered
    /\ hcall.reply.kind = "response"
    /\ hcall.reply.status_code = 200
    /\ PassedToNotification # <<>>
    /\ hcall.returned

====
